---- MODULE Spec2Model ----
(***************************************************************************)
(* Recording / transcription orchestration of the Voice Typing app         *)
(* (the App component in src/scripts/bump-version.js, lines 117-1433).     *)
(*                                                                         *)
(* React state lives in the variables named as in the source.  React       *)
(* commits the re-render that a handler's state changes schedule, and runs *)
(* its effects, before the next input event or continuation is handled,    *)
(* so every step ends with Render: the state-mirroring refs (lines         *)
(* 184-198) and the memoized callbacks take their new values there.        *)
(*                                                                         *)
(* Strings the code inspects character by character (the text buffer,      *)
(* messages, transcripts, error messages) are sequences of one-character   *)
(* strings.  API keys and model ids are opaque strings.                    *)
(***************************************************************************)
EXTENDS Integers, Sequences, FiniteSets, TLC

VARIABLES
    isRecording,        \* useState, line 119
    isTranscribing,     \* useState, line 120
    transcribedText,    \* useState, line 121
    selectedProvider,   \* useState, line 126
    providerConfigs,    \* useState, line 130
    mediaRecorderRef,   \* useRef, line 177: 0 = null, else the session of the recorder
    cursorPositionRef,  \* useRef, line 181
    isRecordingRef,     \* useRef, line 184
    apiKeyRef,          \* useRef, line 185
    isTranscribingRef,  \* useRef, line 186
    transcribedTextRef, \* useRef, line 187
    selectedProviderRef,\* useRef, line 188
    currentConfigRef,   \* useRef, line 189
    lastHotkeyTimeRef,  \* useRef, line 190: the origin of the clock
    memo,               \* provider and model closed over by the memoized startRecording
    sessions,           \* every getUserMedia call and what became of it
    nextSession,        \* number of getUserMedia calls so far, plus one
    hotkeyAwaiting,     \* hotkey callbacks suspended in win.show()/win.setFocus(),
                        \* each with whether a transcription ran at the key press
    now,                \* Date.now(), counted from lastHotkeyTimeRef
    edits,              \* number of user edits so far (buffer and settings)
    localStorage,       \* the persisted keys provider_configs and stt_provider
    validationTimeoutRef, \* useRef, line 179: the pending debounce timer, or NoTimer
    sessionLimit,       \* the getUserMedia calls that are followed: 1..sessionLimit
    historyEnabled,     \* useState, line 165
    historyLimit,       \* useState, line 169
    history,            \* useState, line 173: the items, newest first
    probes,             \* the key probes and model-catalog requests under way
    sttExpanded,        \* useState, line 129
    chunksRef,          \* useRef, line 178: the chunks pushed, each named by its recorder
    clipboard,          \* the text the app wrote to the clipboard last, <<>> if none
    copied              \* useState, line 122

vars ==
    <<isRecording, isTranscribing, transcribedText, selectedProvider,
      providerConfigs, mediaRecorderRef, cursorPositionRef, isRecordingRef,
      apiKeyRef, isTranscribingRef, transcribedTextRef, selectedProviderRef,
      currentConfigRef, lastHotkeyTimeRef, memo, sessions, nextSession,
      hotkeyAwaiting, now, edits, localStorage, validationTimeoutRef, sessionLimit,
      historyEnabled, historyLimit, history, probes, sttExpanded,
      chunksRef, clipboard, copied>>

----------------------------------------------------------------------------
(* Bounds of the model *)

MaxSessions == 1
MaxEdits == 2
MaxAwaiting == 1
MaxMs == 1
MaxProbes == 1

(* Program constants *)

COOLDOWN_MS == 300

\* The program observes the clock only in the difference
\* Date.now() - lastHotkeyTimeRef.current (line 419), so time is counted from
\* the last accepted hotkey signal, in steps of half a cooldown, and is not
\* followed beyond the end of the cooldown.
TickMs == COOLDOWN_MS \div 2

Providers == {"gemini", "openai", "mistral"}

DEFAULT_MODELS ==
    [p \in Providers |->
        CASE p = "gemini" -> <<"gemini-2.0-flash", "gemini-2.5-flash">>
          [] p = "openai" -> <<"whisper-1", "gpt-4o-transcribe",
                               "gpt-4o-mini-transcribe">>
          [] p = "mistral" -> <<"voxtral-mini-latest", "voxtral-small-latest">>]

\* lines 148-158; of a model its id is kept, not its display name
getDefaultConfig(provider, oldApiKey) ==
    [apiKey |-> IF provider = "gemini" THEN oldApiKey ELSE "",
     apiKeyStatus |-> "idle",
     selectedModel |-> DEFAULT_MODELS[provider][1],
     availableModels |-> DEFAULT_MODELS[provider],
     isLoadingModels |-> FALSE]

----------------------------------------------------------------------------
(* Strings *)

MsgNoApiKey ==
    <<"B","i","t","t","e"," ","A","P","I"," ","K","e","y"," ","i","n"," ","d",
      "e","n"," ","S","e","t","t","i","n","g","s"," ","h","i","n","t","e","r",
      "l","e","g","e","n">>
MsgMicDenied ==
    <<"M","i","k","r","o","f","o","n","-","Z","u","g","r","i","f","f"," ","v",
      "e","r","w","e","i","g","e","r","t","."," ","B","i","t","t","e"," ","B",
      "e","r","e","c","h","t","i","g","u","n","g"," ","e","r","t","e","i","l",
      "e","n",".">>
MsgNoSpeech ==
    <<"K","e","i","n","e"," ","S","p","r","a","c","h","e"," ","e","r","k","a",
      "n","n","t","."," ","B","i","t","t","e"," ","e","r","n","e","u","t"," ",
      "v","e","r","s","u","c","h","e","n",".">>
MsgInvalidKey ==
    <<"A","P","I"," ","K","e","y"," ","u","n","g","ü","l","t","i","g">>
FehlerPrefix ==
    <<"F","e","h","l","e","r",":"," ">>
NoSpeechSentinel ==
    <<"[","K","E","I","N","E"," ","S","P","R","A","C","H","E"," ","E","R","K",
      "A","N","N","T","]">>
MsgNoAnswer ==
    [p \in Providers |->
        <<"K","e","i","n","e"," ","A","n","t","w","o","r","t"," ","v","o","n"," ">>
        \o (CASE p = "gemini" -> <<"G","e","m","i","n","i">>
              [] p = "openai" -> <<"O","p","e","n","A","I">>
              [] p = "mistral" -> <<"M","i","s","t","r","a","l">>)]
ErrFailedToFetch ==
    <<"F","a","i","l","e","d"," ","t","o"," ","f","e","t","c","h">>
ErrInvalidKey ==
    <<"i","n","v","a","l","i","d"," ","a","p","i"," ","k","e","y">>
ErrQuota ==
    <<"q","u","o","t","a"," ","e","x","c","e","e","d","e","d">>

Whitespace == {" ", "\n", "\t"}

\* String.prototype.slice(from, to) for 0 <= from, to (0-based, end exclusive)
Slice(s, from, to) ==
    LET t == IF to > Len(s) THEN Len(s) ELSE to
    IN  IF from >= t THEN <<>> ELSE SubSeq(s, from + 1, t)

\* String.prototype.includes
Includes(s, sub) ==
    \E i \in 0..Len(s) : Slice(s, i, i + Len(sub)) = sub

\* String.prototype.trim
RECURSIVE TrimStart(_)
TrimStart(s) ==
    IF s # <<>> /\ Head(s) \in Whitespace THEN TrimStart(Tail(s)) ELSE s

RECURSIVE TrimEnd(_)
TrimEnd(s) ==
    IF s # <<>> /\ s[Len(s)] \in Whitespace
    THEN TrimEnd(SubSeq(s, 1, Len(s) - 1))
    ELSE s

Trim(s) == TrimEnd(TrimStart(s))

----------------------------------------------------------------------------
(* Text merge *)

\* variant: the new text is appended to the buffer, wherever the cursor is
insertAtEnd(text, pos, newText) ==
    LET needsSpaceBefore ==
            Len(text) > 0 /\ text[Len(text)] \notin Whitespace
        separator == IF needsSpaceBefore THEN <<" ">> ELSE <<>>
    IN  [text |-> text \o separator \o newText,
         cursor |-> Len(text) + Len(separator) + Len(newText)]

\* variant: a separating space is put in front of every inserted text
insertAlwaysSpaced(text, pos, newText) ==
    LET before == Slice(text, 0, pos)
        after == Slice(text, pos, Len(text))
        separator == <<" ">>
    IN  [text |-> before \o separator \o newText \o after,
         cursor |-> pos + Len(separator) + Len(newText)]

\* variant: the text behind the cursor is replaced by the new text
insertReplacingRest(text, pos, newText) ==
    LET before == Slice(text, 0, pos)
        needsSpaceBefore ==
            Len(before) > 0 /\ before[Len(before)] \notin Whitespace
        separator == IF needsSpaceBefore THEN <<" ">> ELSE <<>>
    IN  [text |-> before \o separator \o newText,
         cursor |-> pos + Len(separator) + Len(newText)]

\* insertTextAtCursor, lines 550-562: the buffer and the cursor it writes
insertTextAtCursor(text, pos, newText) ==
    LET before == Slice(text, 0, pos)
        after == Slice(text, pos, Len(text))
        needsSpaceBefore ==
            Len(before) > 0 /\ before[Len(before)] \notin Whitespace
        separator == IF needsSpaceBefore THEN <<" ">> ELSE <<>>
    IN  [text |-> before \o separator \o newText \o after,
         cursor |-> pos + Len(separator) + Len(newText)]

\* variant: the hotkey path inserts the transcript as the provider sent it
mergeUntrimmed(currentText, pos, transcript) ==
    LET before == Slice(currentText, 0, pos)
        after == Slice(currentText, pos, Len(currentText))
        needsSpaceBefore ==
            Len(before) > 0 /\ before[Len(before)] \notin Whitespace
        separator == IF needsSpaceBefore THEN <<" ">> ELSE <<>>
    IN  [text |-> before \o separator \o transcript \o after,
         cursor |-> pos + Len(separator) + Len(transcript)]

\* the inline merge of transcribeAudioFromHotkey, lines 753-764
mergeFromHotkey(currentText, pos, transcript) ==
    LET before == Slice(currentText, 0, pos)
        after == Slice(currentText, pos, Len(currentText))
        needsSpaceBefore ==
            Len(before) > 0 /\ before[Len(before)] \notin Whitespace
        separator == IF needsSpaceBefore THEN <<" ">> ELSE <<>>
        trimmedTranscript == Trim(transcript)
    IN  [text |-> before \o separator \o trimmedTranscript \o after,
         cursor |-> pos + Len(separator) + Len(trimmedTranscript)]

----------------------------------------------------------------------------
(* Inputs *)

None == "none"

Key1 == "key-one-000001"
Key2 == "key-two-000002"
Keys == {"", Key1, Key2}

\* what the user can type into the textarea
UserTexts == {<<>>, <<"a">>}

\* where the caret of the textarea is when a recording starts: at the
\* start or at the end of the text
CaretChoices(text) == {0, Len(text)}

\* the answer with a transcript
Transcript == [kind |-> "text", body |-> <<" ", "h", "i", "\n">>]

\* what a provider can answer: a body with text, a body with an error
\* message, a body with neither, or no parseable answer at all
Outcomes ==
    {Transcript,
     [kind |-> "text", body |-> NoSpeechSentinel],
     [kind |-> "error", body |-> ErrInvalidKey],
     [kind |-> "absent", body |-> <<>>],
     [kind |-> "network", body |-> ErrFailedToFetch]}

\* the answers that differ for the coordinator: a transcript, and an error
\* that marks the key invalid
Answers ==
    {o \in Outcomes : o = Transcript \/ o.body = ErrInvalidKey}

\* variant: a body without text is reported like a failed request
transcribeWithProviderCollapsed(provider, outcome) ==
    CASE outcome.kind = "text" -> [ok |-> TRUE, text |-> outcome.body]
      [] outcome.kind = "error" -> [ok |-> FALSE, text |-> outcome.body]
      [] outcome.kind = "absent" -> [ok |-> FALSE, text |-> ErrFailedToFetch]
      [] outcome.kind = "network" -> [ok |-> FALSE, text |-> outcome.body]

\* transcribeWithProvider, lines 583-680, from the answer on: the text it
\* returns or the message of the Error it throws
transcribeWithProvider(provider, outcome) ==
    CASE outcome.kind = "text" -> [ok |-> TRUE, text |-> outcome.body]
      [] outcome.kind = "error" -> [ok |-> FALSE, text |-> outcome.body]
      [] outcome.kind = "absent" -> [ok |-> FALSE, text |-> MsgNoAnswer[provider]]
      [] outcome.kind = "network" -> [ok |-> FALSE, text |-> outcome.body]

\* lines 703 and 785
IsAuthError(errorMsg) ==
    \/ Includes(errorMsg, <<"4", "0", "1">>)
    \/ Includes(errorMsg, <<"4", "0", "3">>)
    \/ Includes(errorMsg, <<"i", "n", "v", "a", "l", "i", "d">>)

----------------------------------------------------------------------------
(* State *)

currentConfig == providerConfigs[selectedProvider]

apiKey == currentConfig.apiKey

\* what an onstop handler installed by startRecording reads of the render
\* that made it (apiKey, selectedProvider, currentConfig.selectedModel,
\* transcribedText); of the hotkey callback's locals only the text matters
NoClosure ==
    [apiKey |-> "", provider |-> "-", selectedModel |-> "-", text |-> <<>>]

NoRequest == [provider |-> "-", apiKey |-> "", model |-> "-"]

\* validationTimeoutRef while no timer is pending
NoTimer == [provider |-> "-", key |-> "", configApiKey |-> ""]

NoSession ==
    [st |-> "none", via |-> "-", stream |-> "none", stoppedBy |-> "-",
     closure |-> NoClosure, req |-> "none", request |-> NoRequest,
     blob |-> <<>>]

Sessions == 1..(MaxSessions + 1)

\* the coordinator's state as the flags give it
CoordinatorState ==
    IF isRecording THEN "Recording"
    ELSE IF isTranscribing THEN "Transcribing"
    ELSE "Idle"

\* a fresh installation: nothing in localStorage, lines 142-146
FreshConfigs == [p \in Providers |-> getDefaultConfig(p, "")]

\* what an earlier run saved under provider_configs, lines 131-140: two
\* providers with validated keys, one never configured
SavedConfigs ==
    [p \in Providers |->
        CASE p = "gemini" ->
                [getDefaultConfig(p, "") EXCEPT
                    !.apiKey = Key1, !.apiKeyStatus = "valid"]
          [] p = "openai" ->
                [getDefaultConfig(p, "") EXCEPT
                    !.apiKey = Key2, !.apiKeyStatus = "valid"]
          [] OTHER -> getDefaultConfig(p, "")]

\* Number.prototype.toString and JSON.stringify of a timestamp: the decimal
\* digits of a natural number
DigitChars == <<"0", "1", "2", "3", "4", "5", "6", "7", "8", "9">>

RECURSIVE digitsOf(_)
digitsOf(n) ==
    IF n < 10
    THEN <<DigitChars[n + 1]>>
    ELSE Append(digitsOf(n \div 10), DigitChars[(n % 10) + 1])

\* JSON.parse of a number: the value of a sequence of decimal digits
RECURSIVE numberOf(_)
numberOf(digits) ==
    IF digits = <<>>
    THEN 0
    ELSE 10 * numberOf(SubSeq(digits, 1, Len(digits) - 1))
            + ((CHOOSE d \in 1..10 : DigitChars[d] = digits[Len(digits)]) - 1)

\* JSON.stringify of a text without quotes, backslashes and control
\* characters, and JSON.parse of what it wrote
Quote == "\""
quoted(text) == <<Quote>> \o text \o <<Quote>>
unquoted(json) == SubSeq(json, 2, Len(json) - 1)

\* JSON.stringify, lines 249, 257 and 284, of a list of history items: the
\* text in quotes, the timestamp in decimal digits
JSONstringify(items) ==
    [i \in DOMAIN items |->
        [id |-> items[i].id,
         text |-> quoted(items[i].text),
         timestamp |-> digitsOf(items[i].timestamp)]]

\* JSON.parse, line 175
JSONparse(json) ==
    [i \in DOMAIN json |->
        [id |-> json[i].id,
         text |-> unquoted(json[i].text),
         timestamp |-> numberOf(json[i].timestamp)]]

\* the value saved under transcript_history: the key is absent, or it
\* holds the JSON text of a list
NoItem == <<>>
Stored(items) == <<JSONstringify(items)>>

\* the history keys of localStorage before anything was saved under them
FreshStore ==
    [history_enabled |-> None, history_limit |-> None,
     transcript_history |-> NoItem]

\* parseInt, line 171, of what Number.toString wrote
parseInt(str) == CHOOSE n \in 0..50 : ToString(n) = str

\* the state after the first render, lines 118-190, with the provider
\* configurations and the history keys found in localStorage; the first
\* limit calls of getUserMedia are followed.
InstalledWith(limit, configs, store) ==
    /\ isRecording = FALSE
    /\ isTranscribing = FALSE
    /\ transcribedText = <<>>
    /\ selectedProvider = "gemini"
    /\ providerConfigs = configs
    /\ historyEnabled = IF store.history_enabled = None
                        THEN TRUE
                        ELSE store.history_enabled = "true"
    /\ historyLimit = IF store.history_limit = None
                      THEN 25
                      ELSE parseInt(store.history_limit)
    /\ history = IF store.transcript_history = NoItem
                 THEN <<>>
                 ELSE JSONparse(store.transcript_history[1])
    /\ probes = {}
    /\ sttExpanded = TRUE
    /\ chunksRef = <<>>
    /\ clipboard = <<>>
    /\ copied = FALSE
    /\ localStorage =
        [provider_configs |-> providerConfigs, stt_provider |-> selectedProvider,
         history_enabled |-> store.history_enabled,
         history_limit |-> store.history_limit,
         transcript_history |-> store.transcript_history]
    /\ mediaRecorderRef = 0
    /\ cursorPositionRef = 0
    /\ isRecordingRef = isRecording
    /\ apiKeyRef = apiKey
    /\ isTranscribingRef = isTranscribing
    /\ transcribedTextRef = transcribedText
    /\ selectedProviderRef = selectedProvider
    /\ currentConfigRef = currentConfig
    /\ lastHotkeyTimeRef = 0
    /\ memo = [provider |-> selectedProvider,
               selectedModel |-> currentConfig.selectedModel]
    /\ sessions = [s \in Sessions |-> NoSession]
    /\ nextSession = 1
    /\ hotkeyAwaiting = <<>>
    /\ now = COOLDOWN_MS
    /\ edits = 0
    /\ validationTimeoutRef = NoTimer
    /\ sessionLimit = limit

\* the first render of an installation that has saved no history yet
Installed(limit, configs) == InstalledWith(limit, configs, FreshStore)

Init == Installed(MaxSessions, FreshConfigs)

----------------------------------------------------------------------------
(* Rendering *)

\* variant: the effects of lines 196-197 are missing, so the hotkey path
\* keeps the provider and the configuration of the first render
RenderWithoutProviderRefs ==
    /\ memo' = IF apiKey' # apiKey \/ transcribedText' # transcribedText
               THEN [provider |-> selectedProvider',
                     selectedModel |-> currentConfig'.selectedModel]
               ELSE memo
    /\ isRecordingRef' = isRecording'
    /\ apiKeyRef' = apiKey'
    /\ isTranscribingRef' = isTranscribing'
    /\ transcribedTextRef' = transcribedText'
    /\ UNCHANGED <<selectedProviderRef, currentConfigRef>>

\* The re-render a handler's state changes cause, and its effects: the refs
\* of lines 193-198 take the new state's values, and startRecording
\* (useCallback, line 541) is made anew, closing over this render's
\* transcribeAudio, only if apiKey or transcribedText differ from those of
\* the previous render.  It is the last part of every step.
Render ==
    /\ memo' = IF apiKey' # apiKey \/ transcribedText' # transcribedText
               THEN [provider |-> selectedProvider',
                     selectedModel |-> currentConfig'.selectedModel]
               ELSE memo
    /\ isRecordingRef' = isRecording'
    /\ apiKeyRef' = apiKey'
    /\ isTranscribingRef' = isTranscribing'
    /\ transcribedTextRef' = transcribedText'
    /\ selectedProviderRef' = selectedProvider'
    /\ currentConfigRef' = currentConfig'

----------------------------------------------------------------------------
(* Settings and buffer edits *)

\* variant: the entry is built from the defaults and the updates, so the
\* fields that are not updated are lost
updateProviderConfigReplacing(provider, updates) ==
    LET newConfigs ==
            [providerConfigs EXCEPT ![provider] =
                [f \in DOMAIN providerConfigs[provider] |->
                    IF f \in DOMAIN updates
                    THEN updates[f]
                    ELSE getDefaultConfig(provider, "")[f]]]
    IN  /\ providerConfigs' = newConfigs
        /\ localStorage' = [localStorage EXCEPT !.provider_configs = newConfigs]

\* updateProviderConfig, lines 291-300
updateProviderConfig(provider, updates) ==
    LET newConfigs ==
            [providerConfigs EXCEPT ![provider] =
                [f \in DOMAIN providerConfigs[provider] |->
                    IF f \in DOMAIN updates
                    THEN updates[f]
                    ELSE providerConfigs[provider][f]]]
    IN  /\ providerConfigs' = newConfigs
        /\ localStorage' = [localStorage EXCEPT !.provider_configs = newConfigs]

\* selectProvider, lines 302-305 (provider buttons, line 1086)
selectProvider(provider) ==
    /\ edits < MaxEdits
    /\ provider # selectedProvider
    /\ selectedProvider' = provider
    /\ localStorage' = [localStorage EXCEPT !.stt_provider = provider]
    /\ edits' = edits + 1
    /\ UNCHANGED <<isRecording, isTranscribing, transcribedText,
                   providerConfigs, mediaRecorderRef, cursorPositionRef,
                   lastHotkeyTimeRef, sessions, nextSession, hotkeyAwaiting,
                   now, validationTimeoutRef, sessionLimit,
                   historyEnabled, historyLimit, history, probes, sttExpanded,
                   chunksRef, clipboard, copied>>
    /\ Render

\* saveProviderApiKey, lines 492-502 (key input of the active provider,
\* line 1108): the new key is stored and the validation timer is re-armed.
\* The timer's callback calls the validateProviderApiKey of the render
\* that handled the input, and that one the fetchModelsForProvider of the
\* same render (useCallback, lines 359, 398 and 502), which reads the key
\* that render had for the provider (line 309): configApiKey.
saveProviderApiKey(provider, key) ==
    /\ provider = selectedProvider
    /\ key # providerConfigs[provider].apiKey
    /\ updateProviderConfig(provider, [apiKey |-> key])
    /\ validationTimeoutRef' =
        [provider |-> provider, key |-> key,
         configApiKey |-> providerConfigs[provider].apiKey]
    /\ UNCHANGED <<isRecording, isTranscribing, transcribedText,
                   selectedProvider, mediaRecorderRef, cursorPositionRef,
                   lastHotkeyTimeRef, sessions, nextSession, hotkeyAwaiting,
                   now, sessionLimit,
                   historyEnabled, historyLimit, history, probes, sttExpanded,
                   chunksRef, clipboard, copied>>
    /\ Render

\* the key input of the active provider is changed to key: counted among
\* the edits, or not counted
editApiKey(key) ==
    /\ edits < MaxEdits
    /\ edits' = edits + 1
    /\ saveProviderApiKey(selectedProvider, key)

typeApiKey(key) ==
    /\ UNCHANGED edits
    /\ saveProviderApiKey(selectedProvider, key)

\* model buttons of the active provider, line 1163, shown while its key
\* counts as valid (line 1151)
selectModel(provider, model) ==
    /\ edits < MaxEdits
    /\ provider = selectedProvider
    /\ providerConfigs[provider].apiKeyStatus = "valid"
    /\ model # providerConfigs[provider].selectedModel
    /\ updateProviderConfig(provider, [selectedModel |-> model])
    /\ edits' = edits + 1
    /\ UNCHANGED <<isRecording, isTranscribing, transcribedText,
                   selectedProvider, mediaRecorderRef, cursorPositionRef,
                   lastHotkeyTimeRef, sessions, nextSession, hotkeyAwaiting,
                   now, validationTimeoutRef, sessionLimit,
                   historyEnabled, historyLimit, history, probes, sttExpanded,
                   chunksRef, clipboard, copied>>
    /\ Render

\* variant: the remembered offset follows the user's edits
textareaChangeMovesOffset(text) ==
    /\ edits < MaxEdits
    /\ text # transcribedText
    /\ transcribedText' = text
    /\ cursorPositionRef' = Len(text)
    /\ edits' = edits + 1
    /\ UNCHANGED <<isRecording, isTranscribing, selectedProvider,
                   providerConfigs, mediaRecorderRef,
                   lastHotkeyTimeRef, sessions, nextSession, hotkeyAwaiting,
                   now, localStorage, validationTimeoutRef, sessionLimit,
                   historyEnabled, historyLimit, history, probes, sttExpanded,
                   chunksRef, clipboard, copied>>
    /\ Render

\* textarea onChange, line 900
textareaChange(text) ==
    /\ edits < MaxEdits
    /\ text # transcribedText
    /\ transcribedText' = text
    /\ edits' = edits + 1
    /\ UNCHANGED <<isRecording, isTranscribing, selectedProvider,
                   providerConfigs, mediaRecorderRef, cursorPositionRef,
                   lastHotkeyTimeRef, sessions, nextSession, hotkeyAwaiting,
                   now, localStorage, validationTimeoutRef, sessionLimit,
                   historyEnabled, historyLimit, history, probes, sttExpanded,
                   chunksRef, clipboard, copied>>
    /\ Render

\* the clock; time that passes after the cooldown has run out changes
\* nothing the program observes, so the clock is advanced only until then
Tick ==
    /\ now - lastHotkeyTimeRef < COOLDOWN_MS
    /\ now' = now + TickMs
    /\ UNCHANGED <<isRecording, isTranscribing, transcribedText,
                   selectedProvider, providerConfigs, mediaRecorderRef,
                   cursorPositionRef, lastHotkeyTimeRef, sessions, nextSession,
                   hotkeyAwaiting, edits, localStorage, validationTimeoutRef, sessionLimit,
                   historyEnabled, historyLimit, history, probes, sttExpanded,
                   chunksRef, clipboard, copied>>
    /\ Render

----------------------------------------------------------------------------
(* Capture *)

\* MediaRecorder.stop(): a recording recorder ends and its stop event is
\* queued; an inactive recorder stays as it is
recorderStop(s, by) ==
    IF sessions[s].st = "recording"
    THEN [sessions EXCEPT ![s].st = "stopping", ![s].stoppedBy = by]
    ELSE sessions

\* navigator.mediaDevices.getUserMedia is called (lines 518 and 447); the
\* calls after the first sessionLimit ones are counted and not followed
callGetUserMedia(via, closure) ==
    /\ nextSession <= sessionLimit + 1
    /\ nextSession' = nextSession + 1
    /\ sessions' =
        IF nextSession <= sessionLimit
        THEN [sessions EXCEPT ![nextSession] =
                [NoSession EXCEPT
                    !.st = "acquiring", !.via = via, !.closure = closure]]
        ELSE sessions

\* line 505
noApiKey == apiKey = ""

\* variant: the record button stays enabled while a transcription runs
recordButtonNeverDisabled == FALSE

\* line 867: the record button is disabled
recordButtonDisabled == isTranscribing

\* startRecording, lines 504-518, up to the call of getUserMedia (record
\* button, lines 865-867: bound to startRecording while isRecording is
\* false)
startRecording ==
    /\ ~isRecording
    /\ ~recordButtonDisabled
    /\ IF noApiKey
       THEN /\ transcribedText' = MsgNoApiKey
            /\ UNCHANGED <<cursorPositionRef, sessions, nextSession>>
       ELSE /\ \E caret \in CaretChoices(transcribedText) :
                    cursorPositionRef' = caret
            /\ callGetUserMedia("ui",
                    [apiKey |-> apiKey,
                     provider |-> memo.provider,
                     selectedModel |-> memo.selectedModel,
                     text |-> transcribedText])
            /\ UNCHANGED transcribedText
    /\ UNCHANGED <<isRecording, isTranscribing, selectedProvider,
                   providerConfigs, mediaRecorderRef, lastHotkeyTimeRef,
                   hotkeyAwaiting, now, edits, localStorage,
                   validationTimeoutRef, sessionLimit,
                   historyEnabled, historyLimit, history, probes, sttExpanded,
                   chunksRef, clipboard, copied>>
    /\ Render

\* stopRecording, lines 543-548 (record button while isRecording is true)
stopRecording ==
    /\ isRecording
    /\ ~recordButtonDisabled
    /\ IF mediaRecorderRef # 0 /\ isRecording
       THEN /\ sessions' = recorderStop(mediaRecorderRef, "ui")
            /\ isRecording' = FALSE
       ELSE UNCHANGED <<sessions, isRecording>>
    /\ UNCHANGED <<isTranscribing, transcribedText, selectedProvider,
                   providerConfigs, mediaRecorderRef, cursorPositionRef,
                   lastHotkeyTimeRef, nextSession, hotkeyAwaiting, now, edits,
                   localStorage, validationTimeoutRef, sessionLimit,
                   historyEnabled, historyLimit, history, probes, sttExpanded,
                   chunksRef, clipboard, copied>>
    /\ Render

\* variant: the comparison of line 420 the wrong way round
inCooldownReversed == now - lastHotkeyTimeRef > COOLDOWN_MS

\* line 420
inCooldown == now - lastHotkeyTimeRef < COOLDOWN_MS

\* hotkey callback, lines 416-429: the cooldown check, then the callback
\* waits for win.show() and win.setFocus()
hotkeyPressed ==
    /\ IF inCooldown
       THEN UNCHANGED <<now, lastHotkeyTimeRef, hotkeyAwaiting>>
       ELSE /\ Len(hotkeyAwaiting) < MaxAwaiting
            /\ now' = 0
            /\ lastHotkeyTimeRef' = now'
            /\ hotkeyAwaiting' = Append(hotkeyAwaiting, CoordinatorState = "Transcribing")
    /\ UNCHANGED <<isRecording, isTranscribing, transcribedText,
                   selectedProvider, providerConfigs, mediaRecorderRef,
                   cursorPositionRef, sessions, nextSession, edits,
                   localStorage, validationTimeoutRef, sessionLimit,
                   historyEnabled, historyLimit, history, probes, sttExpanded,
                   chunksRef, clipboard, copied>>
    /\ Render

\* variant: the hotkey starts a recording without looking at the key
hotkeyMayStartWithoutKey == ~isTranscribingRef

\* line 443
hotkeyMayStart == apiKeyRef # "" /\ ~isTranscribingRef

\* variant: the hotkey stops only recorders that the hotkey started
hotkeyOwnRecorder ==
    IF mediaRecorderRef # 0 /\ sessions[mediaRecorderRef].via = "hotkey"
    THEN mediaRecorderRef
    ELSE 0

\* the recorder the stop branch of the hotkey callback stops, line 439
hotkeyRecorder == mediaRecorderRef

\* hotkey callback, lines 431-447, from the reads of the refs to the call
\* of getUserMedia
hotkeyToggle ==
    /\ hotkeyAwaiting # <<>>
    /\ hotkeyAwaiting' = Tail(hotkeyAwaiting)
    /\ IF isRecordingRef
       THEN /\ IF hotkeyRecorder # 0
               THEN /\ sessions' = recorderStop(hotkeyRecorder, "hotkey")
                    /\ isRecording' = FALSE
               ELSE UNCHANGED <<sessions, isRecording>>
            /\ UNCHANGED nextSession
       ELSE IF hotkeyMayStart
       THEN /\ callGetUserMedia("hotkey",
                    [NoClosure EXCEPT !.text = transcribedTextRef])
            /\ UNCHANGED isRecording
       ELSE UNCHANGED <<sessions, nextSession, isRecording>>
    /\ UNCHANGED <<isTranscribing, transcribedText, selectedProvider,
                   providerConfigs, mediaRecorderRef, cursorPositionRef,
                   lastHotkeyTimeRef, now, edits, localStorage,
                   validationTimeoutRef, sessionLimit,
                   historyEnabled, historyLimit, history, probes, sttExpanded,
                   chunksRef, clipboard, copied>>
    /\ Render

\* getUserMedia resolves: lines 519-536 (startRecording) and 448-472
\* (hotkey callback, which saves the cursor position only now)
getUserMediaResolved(s) ==
    /\ sessions[s].st = "acquiring"
    /\ sessions' = [sessions EXCEPT ![s].st = "recording", ![s].stream = "open"]
    /\ mediaRecorderRef' = s
    /\ IF sessions[s].via = "hotkey"
       THEN \E caret \in CaretChoices(transcribedText)
                            \cup {Len(sessions[s].closure.text)} :
                cursorPositionRef' = caret
       ELSE UNCHANGED cursorPositionRef
    /\ chunksRef' = <<>>
    /\ isRecording' = TRUE
    /\ UNCHANGED <<isTranscribing, transcribedText, selectedProvider,
                   providerConfigs, lastHotkeyTimeRef, nextSession,
                   hotkeyAwaiting, now, edits, localStorage,
                   validationTimeoutRef, sessionLimit,
                   historyEnabled, historyLimit, history, probes, sttExpanded,
                   clipboard, copied>>
    /\ Render

\* getUserMedia rejects: lines 537-540 (startRecording) and 473-475
\* (hotkey callback)
getUserMediaRejected(s) ==
    /\ sessions[s].st = "acquiring"
    /\ sessions' = [sessions EXCEPT ![s] = [NoSession EXCEPT !.st = "failed"]]
    /\ IF sessions[s].via = "ui"
       THEN transcribedText' = MsgMicDenied
       ELSE UNCHANGED transcribedText
    /\ UNCHANGED <<isRecording, isTranscribing, selectedProvider,
                   providerConfigs, mediaRecorderRef, cursorPositionRef,
                   lastHotkeyTimeRef, nextSession, hotkeyAwaiting, now, edits,
                   localStorage, validationTimeoutRef, sessionLimit,
                   historyEnabled, historyLimit, history, probes, sttExpanded,
                   chunksRef, clipboard, copied>>
    /\ Render

----------------------------------------------------------------------------
(* Transcription *)

\* variant: onstop leaves the tracks running
tracksLeftRunning(stream) == stream

\* stream.getTracks().forEach(track => track.stop()), lines 531 and 467
stopTracks(stream) == "released"

\* ondataavailable, lines 523-527 and 459-463: the recorders are started
\* without a timeslice (lines 535 and 471), so a recorder delivers its
\* audio as one chunk when it is stopped, in the task that then fires its
\* stop event; the chunk is named by its recorder
ondataavailable(chunks, s) == Append(chunks, s)

\* the first two statements of both onstop handlers, lines 530-531 and
\* 466-467: the blob is made of the chunks pushed so far, the chunk this
\* recorder has just delivered being the last, and the tracks of the
\* stream are stopped
finalize(s) ==
    [sessions EXCEPT ![s].st = "finalized",
                     ![s].stream = stopTracks(sessions[s].stream),
                     ![s].blob = ondataavailable(chunksRef, s)]

\* what transcribeAudio and transcribeAudioFromHotkey do up to their first
\* suspension, lines 683-691 and 732-744
beginTranscription(s, key, provider, model) ==
    IF key = ""
    THEN /\ transcribedText' = MsgNoApiKey
         /\ sessions' = [finalize(s) EXCEPT
                ![s].req = "rejected", ![s].closure = NoClosure]
         /\ UNCHANGED isTranscribing
    ELSE /\ isTranscribing' = TRUE
         /\ sessions' = [finalize(s) EXCEPT
                ![s].req = "encoding",
                ![s].request = [provider |-> provider, apiKey |-> key,
                                model |-> model]]
         /\ UNCHANGED transcribedText

\* transcribeAudio, lines 682-691, called by the onstop handler that
\* startRecording installed: it reads the closure of the render in which
\* that startRecording was made
transcribeAudio(s) ==
    LET c == sessions[s].closure
    IN  beginTranscription(s, c.apiKey, c.provider, c.selectedModel)

\* transcribeAudioFromHotkey, lines 727-744, called by the onstop handler
\* that the hotkey callback installed: it reads the refs
transcribeAudioFromHotkey(s) ==
    LET currentApiKey == apiKeyRef
        provider == selectedProviderRef
        config == currentConfigRef
    IN  beginTranscription(s, currentApiKey, provider, config.selectedModel)

\* the recorder's dataavailable and stop events: ondataavailable, then
\* mediaRecorder.onstop, lines 529-533 and 465-469
onstop(s) ==
    /\ sessions[s].st = "stopping"
    /\ IF sessions[s].via = "ui"
       THEN transcribeAudio(s)
       ELSE transcribeAudioFromHotkey(s)
    /\ chunksRef' = ondataavailable(chunksRef, s)
    /\ UNCHANGED <<isRecording, selectedProvider, providerConfigs,
                   mediaRecorderRef, cursorPositionRef, lastHotkeyTimeRef,
                   nextSession, hotkeyAwaiting, now, edits, localStorage,
                   validationTimeoutRef, sessionLimit,
                   historyEnabled, historyLimit, history, probes, sttExpanded,
                   clipboard, copied>>
    /\ Render

\* transcribeWithProvider, lines 588-617, 629-643, 655-668: the audio is
\* encoded and the request leaves
requestSent(s) ==
    /\ sessions[s].req = "encoding"
    /\ sessions' = [sessions EXCEPT ![s].req = "sent"]
    /\ UNCHANGED <<isRecording, isTranscribing, transcribedText,
                   selectedProvider, providerConfigs, mediaRecorderRef,
                   cursorPositionRef, lastHotkeyTimeRef, nextSession,
                   hotkeyAwaiting, now, edits, localStorage,
                   validationTimeoutRef, sessionLimit,
                   historyEnabled, historyLimit, history, probes, sttExpanded,
                   chunksRef, clipboard, copied>>
    /\ Render

\* variant: the catch block marks the key of the provider that is active
\* when the request fails
transcriptionFailedActive(provider, errorMsg) ==
    IF IsAuthError(errorMsg)
    THEN /\ transcribedText' = MsgInvalidKey
         /\ updateProviderConfig(selectedProvider, [apiKeyStatus |-> "invalid"])
    ELSE /\ transcribedText' = FehlerPrefix \o errorMsg
         /\ UNCHANGED <<providerConfigs, localStorage>>

\* lines 700-708 and 782-790: what the catch block writes
transcriptionFailed(provider, errorMsg) ==
    IF IsAuthError(errorMsg)
    THEN /\ transcribedText' = MsgInvalidKey
         /\ updateProviderConfig(provider, [apiKeyStatus |-> "invalid"])
    ELSE /\ transcribedText' = FehlerPrefix \o errorMsg
         /\ UNCHANGED <<providerConfigs, localStorage>>

\* variant: no finally block
withoutFinally == UNCHANGED isTranscribing

\* the finally blocks, lines 709-711 and 791-793
finallyIdle == isTranscribing' = FALSE

\* transcribeAudio, lines 690-711, from the answer of the provider on
transcribeAudioDone(s, outcome) ==
    LET c == sessions[s].closure
        r == transcribeWithProvider(c.provider, outcome)
    IN  /\ IF r.ok
           THEN /\ IF Includes(r.text, NoSpeechSentinel)
                   THEN /\ transcribedText' =
                            IF c.text = <<>> THEN MsgNoSpeech ELSE transcribedText
                        /\ UNCHANGED cursorPositionRef
                   ELSE LET m == insertTextAtCursor(c.text, cursorPositionRef,
                                                    Trim(r.text))
                        IN  /\ transcribedText' = m.text
                            /\ cursorPositionRef' = m.cursor
                /\ UNCHANGED <<providerConfigs, localStorage>>
           ELSE /\ transcriptionFailed(c.provider, r.text)
                /\ UNCHANGED cursorPositionRef
        /\ finallyIdle

\* transcribeAudioFromHotkey, lines 746-793, from the answer of the
\* provider on
transcribeAudioFromHotkeyDone(s, outcome) ==
    LET provider == sessions[s].request.provider
        r == transcribeWithProvider(provider, outcome)
    IN  /\ IF r.ok
           THEN /\ IF Includes(r.text, NoSpeechSentinel)
                   THEN /\ transcribedText' =
                            IF transcribedTextRef = <<>>
                            THEN MsgNoSpeech
                            ELSE transcribedText
                        /\ UNCHANGED cursorPositionRef
                   ELSE LET m == mergeFromHotkey(transcribedTextRef,
                                                 cursorPositionRef, r.text)
                        IN  /\ transcribedText' = m.text
                            /\ cursorPositionRef' = m.cursor
                /\ UNCHANGED <<providerConfigs, localStorage>>
           ELSE /\ transcriptionFailed(provider, r.text)
                /\ UNCHANGED cursorPositionRef
        /\ finallyIdle

\* variant: after a failed request the audio is sent again
providerAnsweredWithRetry(s, outcome) ==
    /\ sessions[s].req = "sent"
    /\ IF sessions[s].via = "ui"
       THEN transcribeAudioDone(s, outcome)
       ELSE transcribeAudioFromHotkeyDone(s, outcome)
    /\ sessions' =
        IF transcribeWithProvider(sessions[s].request.provider, outcome).ok
        THEN [sessions EXCEPT ![s] =
                [NoSession EXCEPT !.st = "finalized", !.req = "done",
                                  !.stream = sessions[s].stream]]
        ELSE [sessions EXCEPT ![s].req = "encoding"]
    /\ UNCHANGED <<isRecording, selectedProvider, mediaRecorderRef,
                   lastHotkeyTimeRef, nextSession, hotkeyAwaiting, now, edits,
                   validationTimeoutRef, sessionLimit,
                   historyEnabled, historyLimit, history, probes, sttExpanded,
                   chunksRef, clipboard, copied>>
    /\ Render

\* the provider's answer arrives (or the request fails)
providerAnswered(s, outcome) ==
    /\ sessions[s].req = "sent"
    /\ IF sessions[s].via = "ui"
       THEN transcribeAudioDone(s, outcome)
       ELSE transcribeAudioFromHotkeyDone(s, outcome)
    /\ sessions' = [sessions EXCEPT ![s] =
            [NoSession EXCEPT !.st = "finalized", !.req = "done",
                              !.stream = sessions[s].stream]]
    /\ UNCHANGED <<isRecording, selectedProvider, mediaRecorderRef,
                   lastHotkeyTimeRef, nextSession, hotkeyAwaiting, now, edits,
                   validationTimeoutRef, sessionLimit,
                   historyEnabled, historyLimit, history, probes, sttExpanded,
                   chunksRef, clipboard, copied>>
    /\ Render

----------------------------------------------------------------------------
(* Specifications *)

\* the coordinator: both entry points, the clock, and edits of the active
\* provider's key
Next ==
    \/ \E k \in {"", Key1} : typeApiKey(k)
    \/ Tick
    \/ startRecording
    \/ stopRecording
    \/ hotkeyPressed
    \/ hotkeyToggle
    \/ \E s \in Sessions : getUserMediaResolved(s)
    \/ \E s \in Sessions : getUserMediaRejected(s)
    \/ \E s \in Sessions : onstop(s)
    \/ \E s \in Sessions : requestSent(s)
    \/ \E s \in Sessions, o \in Answers : providerAnswered(s, o)

Spec == Init /\ [][Next]_vars

\* the coordinator with one more getUserMedia call followed
InitRace == Installed(MaxSessions + 1, FreshConfigs)

SpecRace == InitRace /\ [][Next]_vars

\* the coordinator of an installation with saved configurations under fair
\* scheduling: whatever the provider can answer, an encoding that was
\* started ends and the request sent is answered or fails
InitFair == Installed(MaxSessions, SavedConfigs)

NextFair ==
    \/ Tick
    \/ startRecording
    \/ stopRecording
    \/ hotkeyPressed
    \/ hotkeyToggle
    \/ \E s \in Sessions : getUserMediaResolved(s)
    \/ \E s \in Sessions : onstop(s)
    \/ \E s \in Sessions : requestSent(s)
    \/ \E s \in Sessions, o \in Outcomes : providerAnswered(s, o)

Fairness ==
    \A s \in Sessions :
        /\ WF_vars(requestSent(s))
        /\ WF_vars(\E o \in Outcomes : providerAnswered(s, o))

SpecFair == InitFair /\ [][NextFair]_vars /\ Fairness

\* the hotkey path while the user changes the settings: an installation
\* with saved configurations, the provider buttons, the key input and the
\* model buttons; every request is answered with a transcript
InitLive == Installed(MaxSessions, SavedConfigs)

NextLive ==
    \/ \E p \in Providers : selectProvider(p)
    \/ \E k \in Keys : editApiKey(k)
    \/ \E m \in DOMAIN DEFAULT_MODELS[selectedProvider] :
        selectModel(selectedProvider, DEFAULT_MODELS[selectedProvider][m])
    \/ Tick
    \/ hotkeyPressed
    \/ hotkeyToggle
    \/ \E s \in Sessions : getUserMediaResolved(s)
    \/ \E s \in Sessions : onstop(s)
    \/ \E s \in Sessions : requestSent(s)
    \/ \E s \in Sessions : providerAnswered(s, Transcript)

SpecLive == InitLive /\ [][NextLive]_vars

\* the no-speech answer
NoSpeech == [kind |-> "text", body |-> NoSpeechSentinel]

\* the answers to a recording that differ for the buffer: a transcript
\* and the no-speech sentinel
BufferAnswers == {Transcript, NoSpeech}

\* the coordinator while the user edits the buffer in the textarea: an
\* installation with saved configurations, both entry points, and edits of
\* the text before, during and after a recording and its transcription
InitBuffer == Installed(MaxSessions, SavedConfigs)

NextBuffer ==
    \/ \E t \in UserTexts : textareaChange(t)
    \/ Tick
    \/ startRecording
    \/ stopRecording
    \/ hotkeyPressed
    \/ hotkeyToggle
    \/ \E s \in Sessions : getUserMediaResolved(s)
    \/ \E s \in Sessions : onstop(s)
    \/ \E s \in Sessions : requestSent(s)
    \/ \E s \in Sessions, o \in BufferAnswers : providerAnswered(s, o)

SpecBuffer == InitBuffer /\ [][NextBuffer]_vars

\* buffers a merge is applied to: empty, a word, and texts that end in a
\* letter, a space, a newline or a tab, or have a letter or a space inside
MergeBuffers ==
    {<<>>,
     <<"H", "e", "l", "l", "o">>,
     <<"a">>,
     <<"a", " ">>,
     <<"a", "\n">>,
     <<"a", "\t">>,
     <<"a", "b">>,
     <<"a", " ", "b">>}

\* transcripts as the provider sends them
MergeTranscripts ==
    {<<"w", "o", "r", "l", "d">>,
     <<"T", "e", "s", "t">>,
     Transcript.body}

MergeAnswers == {[kind |-> "text", body |-> t] : t \in MergeTranscripts}

\* a recording was started by way of via with the buffer text and the
\* caret at offset pos, was stopped, and its request is on the way to the
\* active provider (the state after lines 504-536 or 431-472, 543-548,
\* 529-533 and 683-691 or 732-744)
AwaitingAnswer(via, configs, provider, text, pos) ==
    /\ isRecording = FALSE
    /\ isTranscribing = TRUE
    /\ transcribedText = text
    /\ selectedProvider = provider
    /\ providerConfigs = configs
    /\ historyEnabled = TRUE
    /\ historyLimit = 25
    /\ history = <<>>
    /\ probes = {}
    /\ sttExpanded = TRUE
    /\ chunksRef = <<1>>
    /\ clipboard = <<>>
    /\ copied = FALSE
    /\ localStorage =
        [provider_configs |-> providerConfigs, stt_provider |-> selectedProvider,
         history_enabled |-> None, history_limit |-> None,
         transcript_history |-> NoItem]
    /\ mediaRecorderRef = 1
    /\ cursorPositionRef = pos
    /\ isRecordingRef = isRecording
    /\ apiKeyRef = apiKey
    /\ isTranscribingRef = isTranscribing
    /\ transcribedTextRef = transcribedText
    /\ selectedProviderRef = selectedProvider
    /\ currentConfigRef = currentConfig
    /\ lastHotkeyTimeRef = 0
    /\ memo = [provider |-> selectedProvider,
               selectedModel |-> currentConfig.selectedModel]
    /\ sessions =
        [s \in Sessions |->
            IF s = 1
            THEN [st |-> "finalized", via |-> via, stream |-> "released",
                  stoppedBy |-> "ui",
                  closure |->
                    IF via = "ui"
                    THEN [apiKey |-> apiKey,
                          provider |-> selectedProvider,
                          selectedModel |-> currentConfig.selectedModel,
                          text |-> text]
                    ELSE [NoClosure EXCEPT !.text = text],
                  req |-> "sent",
                  request |-> [provider |-> selectedProvider,
                               apiKey |-> apiKey,
                               model |-> currentConfig.selectedModel],
                  blob |-> <<1>>]
            ELSE NoSession]
    /\ nextSession = 2
    /\ hotkeyAwaiting = <<>>
    /\ now = COOLDOWN_MS
    /\ edits = 0
    /\ validationTimeoutRef = NoTimer
    /\ sessionLimit = MaxSessions

\* the merge as a function of buffer, cursor and transcript: every buffer
\* with every cursor offset within it, on either path, answered with
\* every transcript
InitMerge ==
    \E via \in {"ui", "hotkey"}, text \in MergeBuffers :
        \E pos \in 0..Len(text) :
            AwaitingAnswer(via, SavedConfigs, "gemini", text, pos)

NextMerge ==
    \E s \in Sessions, o \in MergeAnswers : providerAnswered(s, o)

SpecMerge == InitMerge /\ [][NextMerge]_vars

\* an installation in which every provider has a validated key
KeyedConfigs ==
    [p \in Providers |->
        [getDefaultConfig(p, "") EXCEPT !.apiKey = Key1, !.apiKeyStatus = "valid"]]

ErrUnauthorized ==
    <<"U","n","a","u","t","h","o","r","i","z","e","d">>

\* a body with neither text nor error, lines 624, 650 and 676
Absent == [kind |-> "absent", body |-> <<>>]

\* fetch or response.json() throws, lines 592, 619, 637, 645, 663, 671
NetworkFailure == [kind |-> "network", body |-> ErrFailedToFetch]

\* what the endpoint of a provider can respond to the request: an HTTP
\* status and a JSON body
HttpResponses ==
    {[status |-> 200, json |-> Transcript],
     [status |-> 200, json |-> NoSpeech],
     [status |-> 200, json |-> Absent],
     [status |-> 401, json |-> [kind |-> "error", body |-> ErrInvalidKey]],
     [status |-> 401, json |-> [kind |-> "error", body |-> ErrUnauthorized]],
     [status |-> 401, json |-> Absent],
     [status |-> 429, json |-> [kind |-> "error", body |-> ErrQuota]]}

\* const data = await response.json(), lines 619, 645 and 671: the body
\* is all that the code takes from the response
responseJson(response) == response.json

\* the response to the request of recording s has arrived and is handled
fetchResolved(s, response) == providerAnswered(s, responseJson(response))

\* the request of recording s has failed without a response
fetchRejected(s) == providerAnswered(s, NetworkFailure)

\* what the buffer holds when a recording starts: nothing, a text, or the
\* message that a failed transcription left there
PriorBuffers ==
    {<<>>,
     <<"a">>,
     FehlerPrefix \o ErrFailedToFetch,
     FehlerPrefix \o MsgNoAnswer["gemini"]}

\* the answer to a transcription request: every provider on either path,
\* with every prior buffer, answered with every response or not at all
InitAnswer ==
    \E via \in {"ui", "hotkey"}, provider \in Providers, text \in PriorBuffers :
        \E pos \in CaretChoices(text) :
            AwaitingAnswer(via, KeyedConfigs, provider, text, pos)

NextAnswer ==
    \/ \E s \in Sessions, response \in HttpResponses : fetchResolved(s, response)
    \/ \E s \in Sessions : fetchRejected(s)

SpecAnswer == InitAnswer /\ [][NextAnswer]_vars

\* recordings by the button, one after the other or started before the
\* previous one was transcribed, with everything a provider can answer: an
\* installation with saved keys, two getUserMedia calls followed
InitRetry == Installed(MaxSessions + 1, SavedConfigs)

NextRetry ==
    \/ startRecording
    \/ stopRecording
    \/ \E s \in Sessions : getUserMediaResolved(s)
    \/ \E s \in Sessions : onstop(s)
    \/ \E s \in Sessions : requestSent(s)
    \/ \E s \in Sessions, o \in Outcomes : providerAnswered(s, o)

SpecRetry == InitRetry /\ [][NextRetry]_vars

----------------------------------------------------------------------------
(* History *)

\* HistoryLimit, line 74, and the limit buttons, line 1030; 0 = unlimited
HistoryLimits == {10, 25, 50, 0}

\* String.prototype.startsWith
StartsWith(s, prefix) ==
    /\ Len(prefix) <= Len(s)
    /\ SubSeq(s, 1, Len(prefix)) = prefix

\* lines 231-232
RejectedPrefixes ==
    {<<"F","e","h","l","e","r">>,
     <<"B","i","t","t","e">>,
     <<"A","P","I">>,
     <<"K","e","i","n","e">>,
     <<"M","i","k","r","o","f","o","n">>,
     <<"V","e","r","b","i","n","d","u","n","g">>}

\* variant: the last n items are kept
SliceFromEnd(items, n) ==
    SubSeq(items,
           IF n < Len(items) THEN Len(items) - n + 1 ELSE 1,
           Len(items))

\* Array.prototype.slice(0, n)
SliceTo(items, n) ==
    SubSeq(items, 1, IF n < Len(items) THEN n ELSE Len(items))

\* Array.prototype.filter with the test of line 256
RECURSIVE WithoutId(_, _)
WithoutId(items, id) ==
    IF items = <<>>
    THEN <<>>
    ELSE (IF Head(items).id # id THEN <<Head(items)>> ELSE <<>>)
         \o WithoutId(Tail(items), id)

\* lines 234-238: Date.now(), here at, is read for the id and for the
\* timestamp
newItem(text, at) ==
    [id |-> ToString(at), text |-> text, timestamp |-> at]

\* variant: texts of four characters are recorded
earlyReturnBelowFour(text) ==
    \/ ~historyEnabled
    \/ Len(text) < 4
    \/ \E prefix \in RejectedPrefixes : StartsWith(text, prefix)

\* lines 229-232: what saveToHistory returns on without an update
earlyReturn(text) ==
    \/ ~historyEnabled
    \/ Len(text) < 5
    \/ \E prefix \in RejectedPrefixes : StartsWith(text, prefix)

\* variant: the text of the newest item is recorded again
neverSameAsNewest(prev, text) == FALSE

\* line 242
sameAsNewest(prev, text) == Len(prev) > 0 /\ prev[1].text = text

\* lines 244-248: the list the updater builds
newHistory(prev, item, limit) ==
    IF limit > 0
    THEN SliceTo(<<item>> \o prev, limit)
    ELSE <<item>> \o prev

\* saveToHistory, lines 228-252
saveToHistory(text) ==
    IF earlyReturn(text) \/ sameAsNewest(history, text)
    THEN UNCHANGED <<history, localStorage>>
    ELSE /\ history' = newHistory(history, newItem(text, now), historyLimit)
         /\ localStorage' =
                [localStorage EXCEPT !.transcript_history = Stored(history')]

\* what the history actions leave alone: the coordinator and the settings
\* of the providers
historyOnly ==
    UNCHANGED <<isRecording, isTranscribing, selectedProvider,
                providerConfigs, mediaRecorderRef, cursorPositionRef,
                lastHotkeyTimeRef, sessions, nextSession, hotkeyAwaiting,
                validationTimeoutRef, sessionLimit, probes, sttExpanded,
                chunksRef>>

\* the clear button of the main view, lines 925-930; it is disabled while
\* the buffer is empty
clearButton ==
    /\ transcribedText # <<>>
    /\ saveToHistory(transcribedText)
    /\ transcribedText' = <<>>
    /\ UNCHANGED <<now, edits, historyEnabled, historyLimit>>
    /\ UNCHANGED <<clipboard, copied>>
    /\ historyOnly
    /\ Render

\* deleteHistoryItem, lines 254-260 (the button of an item, line 1248)
deleteHistoryItem(id) ==
    /\ edits < MaxEdits
    /\ \E i \in DOMAIN history : history[i].id = id
    /\ history' = WithoutId(history, id)
    /\ localStorage' =
        [localStorage EXCEPT !.transcript_history = Stored(history')]
    /\ edits' = edits + 1
    /\ UNCHANGED <<transcribedText, now, historyEnabled, historyLimit>>
    /\ UNCHANGED <<clipboard, copied>>
    /\ historyOnly
    /\ Render

\* variant: the list is emptied in memory only
clearHistoryKeepingStore ==
    /\ history # <<>>
    /\ history' = <<>>
    /\ UNCHANGED <<transcribedText, now, edits, historyEnabled, historyLimit,
                   localStorage>>
    /\ UNCHANGED <<clipboard, copied>>
    /\ historyOnly
    /\ Render

\* clearHistory, lines 262-265 (shown while the history has items, line
\* 1200): the key is removed from localStorage
clearHistory ==
    /\ history # <<>>
    /\ history' = <<>>
    /\ localStorage' = [localStorage EXCEPT !.transcript_history = NoItem]
    /\ UNCHANGED <<transcribedText, now, edits, historyEnabled, historyLimit>>
    /\ UNCHANGED <<clipboard, copied>>
    /\ historyOnly
    /\ Render

\* toggleHistoryEnabled, lines 272-275 (the switch, line 1016)
toggleHistoryEnabled(enabled) ==
    /\ enabled = ~historyEnabled
    /\ historyEnabled' = enabled
    /\ localStorage' =
        [localStorage EXCEPT
            !.history_enabled = IF enabled THEN "true" ELSE "false"]
    /\ UNCHANGED <<transcribedText, now, edits, historyLimit, history>>
    /\ UNCHANGED <<clipboard, copied>>
    /\ historyOnly
    /\ Render

\* variant: the items are left as they are
updateHistoryLimitUntrimmed(limit) ==
    /\ historyEnabled
    /\ historyLimit' = limit
    /\ localStorage' = [localStorage EXCEPT !.history_limit = ToString(limit)]
    /\ UNCHANGED <<transcribedText, now, edits, historyEnabled, history>>
    /\ UNCHANGED <<clipboard, copied>>
    /\ historyOnly
    /\ Render

\* updateHistoryLimit, lines 277-288 (the limit buttons, shown while the
\* history is enabled, lines 1029-1033)
updateHistoryLimit(limit) ==
    /\ historyEnabled
    /\ historyLimit' = limit
    /\ IF limit > 0
       THEN LET trimmed == SliceTo(history, limit)
            IN  /\ history' = trimmed
                /\ localStorage' =
                    [localStorage EXCEPT
                        !.history_limit = ToString(limit),
                        !.transcript_history = Stored(trimmed)]
       ELSE /\ UNCHANGED history
            /\ localStorage' =
                    [localStorage EXCEPT !.history_limit = ToString(limit)]
    /\ UNCHANGED <<transcribedText, now, edits, historyEnabled>>
    /\ UNCHANGED <<clipboard, copied>>
    /\ historyOnly
    /\ Render

\* a millisecond passes.  While no hotkey signal has been accepted
\* lastHotkeyTimeRef is 0 (line 190) and now is what Date.now() returns.
msPasses ==
    /\ lastHotkeyTimeRef = 0
    /\ now < COOLDOWN_MS + MaxMs
    /\ now' = now + 1
    /\ UNCHANGED <<transcribedText, edits, localStorage, historyEnabled,
                   historyLimit, history>>
    /\ UNCHANGED <<clipboard, copied>>
    /\ historyOnly
    /\ Render

Hello == <<"h","e","l","l","o">>
World == <<"w","o","r","l","d">>

\* what the user types before clearing: texts that are recorded, texts
\* that are too short, and texts that start with a rejected prefix or
\* nearly do
HistoryTexts ==
    {Hello, World,
     <<"h","e","l","l">>,
     <<"F","e","h","l","e","r",":"," ","x">>,
     <<"B","i","t","t","e">>,
     <<"A","P","I","-","K","e","y">>,
     <<"K","e","i","n","e","r">>,
     <<"M","i","k","r","o","f","o","n">>,
     <<"V","e","r","b","i","n","d","u","n","g">>,
     <<"f","e","h","l","e","r">>,
     <<"V","e","r","b","i","n","d","e","n">>}

\* n items an earlier run recorded, one in each of its first n
\* milliseconds
SavedItems(n) ==
    [i \in 1..n |->
        [id |-> ToString(n + 1 - i),
         text |-> IF (n - i) % 2 = 0 THEN Hello ELSE World,
         timestamp |-> n + 1 - i]]

\* what an earlier run left under the history keys, lines 166-175
SavedStores ==
    {FreshStore,
     [history_enabled |-> "false", history_limit |-> "25",
      transcript_history |-> Stored(SavedItems(1))],
     [history_enabled |-> "true", history_limit |-> "10",
      transcript_history |-> Stored(SavedItems(10))],
     [history_enabled |-> "true", history_limit |-> "0",
      transcript_history |-> Stored(SavedItems(11))],
     [history_enabled |-> "true", history_limit |-> "25",
      transcript_history |-> Stored(SavedItems(25))],
     [history_enabled |-> "true", history_limit |-> "50",
      transcript_history |-> Stored(SavedItems(50))]}

\* the items whose delete button the user clicks: the newest two and the
\* oldest
DeleteChoices(items) == {1, 2, Len(items)} \cap DOMAIN items

\* the history: the clear button, the history view and the history
\* settings, with the texts the user types and the clock
InitHistory ==
    \E store \in SavedStores : InstalledWith(MaxSessions, FreshConfigs, store)

NextHistory ==
    \/ \E text \in HistoryTexts : textareaChange(text)
    \/ clearButton
    \/ \E i \in DeleteChoices(history) : deleteHistoryItem(history[i].id)
    \/ clearHistory
    \/ toggleHistoryEnabled(~historyEnabled)
    \/ \E limit \in HistoryLimits : updateHistoryLimit(limit)
    \/ msPasses

SpecHistory == InitHistory /\ [][NextHistory]_vars

----------------------------------------------------------------------------
(* Clipboard *)

\* variant: the copy button and copyToClipboard look at the text only for
\* being empty
copyRefusedIfEmpty(text) == text = <<>>

\* the condition of line 797, negated, which is also the disabled
\* attribute of the copy button, line 910
copyRefused(text) ==
    \/ text = <<>>
    \/ StartsWith(text, <<"F","e","h","l","e","r">>)
    \/ StartsWith(text, <<"B","i","t","t","e">>)
    \/ StartsWith(text, <<"A","P","I">>)
    \/ StartsWith(text, <<"K","e","i","n","e">>)
    \/ StartsWith(text, <<"M","i","k","r","o","f","o","n">>)
    \/ StartsWith(text, <<"V","e","r","b","i","n","d","u","n","g">>)

\* copyToClipboard, lines 796-802 (copy button, lines 908-910, disabled
\* while the text is refused): the text is written to the clipboard, and
\* copied is set once the write has succeeded
copyToClipboard ==
    /\ ~copyRefused(transcribedText)
    /\ \E written \in BOOLEAN :
        IF written /\ ~copyRefused(transcribedText)
        THEN /\ clipboard' = transcribedText
             /\ copied' = TRUE
        ELSE UNCHANGED <<clipboard, copied>>
    /\ UNCHANGED <<transcribedText, now, edits, historyEnabled, historyLimit,
                   history, localStorage>>
    /\ historyOnly
    /\ Render

\* the timer of line 800
copiedTimerFired ==
    /\ copied
    /\ copied' = FALSE
    /\ UNCHANGED <<transcribedText, now, edits, historyEnabled, historyLimit,
                   history, localStorage, clipboard>>
    /\ historyOnly
    /\ Render

----------------------------------------------------------------------------
(* Key validation and model catalog *)

\* a key of fewer than 10 characters
ShortKey == "key-3"

\* lines 310 and 363
tooShort(key) == key = "" \/ Len(key) < 10

\* the lists of lines 336-347; for gemini the list models starts with,
\* line 315
StaticModels ==
    [p \in Providers |->
        CASE p = "gemini" -> DEFAULT_MODELS[p]
          [] p = "openai" -> <<"whisper-1", "gpt-4o-transcribe",
                               "gpt-4o-mini-transcribe",
                               "gpt-4o-transcribe-diarize">>
          [] p = "mistral" -> <<"voxtral-mini-latest", "voxtral-small-latest">>]

\* an entry of the catalog the Gemini models endpoint returns: id is its
\* name without "models/" (line 329), generateContent whether its
\* supportedGenerationMethods include "generateContent" (line 324), flashOrPro
\* whether its name includes "flash" or "pro" (line 325)
CatalogEntry(id, generateContent, flashOrPro) ==
    [id |-> id, generateContent |-> generateContent, flashOrPro |-> flashOrPro]

\* catalogs: one with two audio models besides others, one without any
\* audio model, an empty one (or a body without models, line 326)
LiveCatalog ==
    <<CatalogEntry("gemini-2.5-flash", TRUE, TRUE),
      CatalogEntry("embedding-001", FALSE, FALSE),
      CatalogEntry("gemini-3-pro", TRUE, TRUE),
      CatalogEntry("gemini-pro-embed", FALSE, TRUE),
      CatalogEntry("aqa", TRUE, FALSE)>>

CatalogWithoutAudio ==
    <<CatalogEntry("embedding-001", FALSE, FALSE),
      CatalogEntry("aqa", TRUE, FALSE)>>

\* what a probe or a catalog request ends with: a response with
\* response.ok, one without, or a rejected fetch or an unparseable body
ProbeResponses ==
    {[kind |-> "ok", models |-> LiveCatalog],
     [kind |-> "ok", models |-> CatalogWithoutAudio],
     [kind |-> "ok", models |-> <<>>],
     [kind |-> "notOk", models |-> <<>>],
     [kind |-> "failed", models |-> <<>>]}

\* variant: the list is taken from the catalog also when it has no audio
\* model
catalogModelsUnchecked(response) ==
    IF response.kind = "ok"
    THEN LET isAudio(m) == m.generateContent /\ m.flashOrPro
             audioModels == SelectSeq(response.models, isAudio)
         IN  [i \in DOMAIN audioModels |-> audioModels[i].id]
    ELSE DEFAULT_MODELS["gemini"]

\* lines 315-333: the list models holds after the Gemini branch
catalogModels(response) ==
    IF response.kind = "ok"
    THEN LET isAudio(m) == m.generateContent /\ m.flashOrPro
             audioModels == SelectSeq(response.models, isAudio)
         IN  IF Len(audioModels) > 0
             THEN [i \in DOMAIN audioModels |-> audioModels[i].id]
             ELSE DEFAULT_MODELS["gemini"]
    ELSE DEFAULT_MODELS["gemini"]

\* a request under way: a key probe of validateProviderApiKey (lines
\* 374-387) or the catalog request of fetchModelsForProvider (line 318).
\* configApiKey is the key the fetchModelsForProvider of the calling
\* render reads (line 309).
ValidateProbe(provider, key, configApiKey) ==
    [kind |-> "validate", provider |-> provider, key |-> key,
     configApiKey |-> configApiKey]

ModelsProbe(provider, configApiKey) ==
    [kind |-> "models", provider |-> provider, key |-> configApiKey,
     configApiKey |-> configApiKey]

\* no updates
NoUpdates == [f \in {} |-> FALSE]

\* fetchModelsForProvider, lines 308-313 and 334-354, up to its return or
\* its first await: the updates it makes to the provider's entry
fetchModelsUpdates(provider, configApiKey) ==
    IF tooShort(configApiKey)
    THEN NoUpdates
    ELSE IF provider = "gemini"
    THEN [isLoadingModels |-> TRUE]
    ELSE [availableModels |-> StaticModels[provider],
          isLoadingModels |-> FALSE,
          apiKeyStatus |-> "valid"]

\* and the request it waits for
fetchModelsRequests(provider, configApiKey) ==
    IF ~tooShort(configApiKey) /\ provider = "gemini"
    THEN {ModelsProbe(provider, configApiKey)}
    ELSE {}

\* the requests followed at a time: requests are sent while underWay are
\* awaited
overlap(requests, underWay) ==
    /\ requests \cap underWay = {}
    /\ Cardinality(underWay \cup requests) <= MaxProbes

\* what the settings actions leave alone: the coordinator, the buffer and
\* the history
settingsOnly ==
    UNCHANGED <<isRecording, isTranscribing, transcribedText,
                mediaRecorderRef, cursorPositionRef, lastHotkeyTimeRef,
                sessions, nextSession, hotkeyAwaiting, now, sessionLimit,
                historyEnabled, historyLimit, history, chunksRef, clipboard, copied>>

\* variant: the result of the probe is dropped when it fails
validationFailureIgnored == NoUpdates

\* line 396 and line 390 with isValid false
validationFailed == [apiKeyStatus |-> "invalid"]

\* validateProviderApiKey, lines 362-370, up to its first await
validateProviderApiKey(provider, key, configApiKey) ==
    IF tooShort(key)
    THEN /\ updateProviderConfig(provider, [apiKeyStatus |-> "idle"])
         /\ UNCHANGED probes
    ELSE /\ overlap({ValidateProbe(provider, key, configApiKey)}, probes)
         /\ updateProviderConfig(provider, [apiKeyStatus |-> "validating"])
         /\ probes' = probes \cup {ValidateProbe(provider, key, configApiKey)}

\* the callback of the timer of line 499
validationTimerFired ==
    /\ validationTimeoutRef # NoTimer
    /\ validateProviderApiKey(validationTimeoutRef.provider,
                              validationTimeoutRef.key,
                              validationTimeoutRef.configApiKey)
    /\ validationTimeoutRef' = NoTimer
    /\ UNCHANGED <<selectedProvider, edits, sttExpanded, chunksRef, clipboard, copied>>
    /\ settingsOnly
    /\ Render

\* validateProviderApiKey from the answer of its probe on, lines 377-397,
\* with the call of fetchModelsForProvider up to its first await
validateProviderApiKeyDone(probe, response) ==
    /\ probe \in probes
    /\ probe.kind = "validate"
    /\ IF response.kind = "ok"
       THEN /\ overlap(fetchModelsRequests(probe.provider, probe.configApiKey),
                       probes \ {probe})
            /\ updateProviderConfig(probe.provider,
                    fetchModelsUpdates(probe.provider, probe.configApiKey)
                        @@ [apiKeyStatus |-> "valid"])
            /\ probes' = (probes \ {probe})
                    \cup fetchModelsRequests(probe.provider, probe.configApiKey)
       ELSE /\ updateProviderConfig(probe.provider, validationFailed)
            /\ probes' = probes \ {probe}
    /\ UNCHANGED <<selectedProvider, edits, sttExpanded, validationTimeoutRef>>
    /\ settingsOnly
    /\ Render

\* fetchModelsForProvider from the answer of the catalog request on, lines
\* 321-333 and 350-358
fetchModelsForProviderDone(probe, response) ==
    /\ probe \in probes
    /\ probe.kind = "models"
    /\ updateProviderConfig(probe.provider,
            IF response.kind = "failed"
            THEN [isLoadingModels |-> FALSE]
            ELSE [availableModels |-> catalogModels(response),
                  isLoadingModels |-> FALSE,
                  apiKeyStatus |-> "valid"])
    /\ probes' = probes \ {probe}
    /\ UNCHANGED <<selectedProvider, edits, sttExpanded, validationTimeoutRef>>
    /\ settingsOnly
    /\ Render

\* the header of the transcription section of the settings, lines
\* 1052-1058: the section is collapsed or expanded, and on expanding the
\* models of the active provider are fetched if it has a key
sttSectionButton ==
    /\ sttExpanded' = ~sttExpanded
    /\ IF ~sttExpanded /\ currentConfig.apiKey # ""
       THEN /\ overlap(fetchModelsRequests(selectedProvider, currentConfig.apiKey),
                       probes)
            /\ updateProviderConfig(selectedProvider,
                    fetchModelsUpdates(selectedProvider, currentConfig.apiKey))
            /\ probes' = probes
                    \cup fetchModelsRequests(selectedProvider, currentConfig.apiKey)
       ELSE UNCHANGED <<providerConfigs, localStorage, probes>>
    /\ UNCHANGED <<selectedProvider, edits, validationTimeoutRef>>
    /\ settingsOnly
    /\ Render

\* the window is loaded anew (the app is restarted) before anything was
\* typed or recorded: timers and requests of the old page are gone, the
\* state is read from localStorage (lines 126-176), and the effect of
\* lines 201-205 validates the key of the active provider
reload ==
    /\ ~isRecording /\ ~isTranscribing
    /\ transcribedText = <<>>
    /\ nextSession = 1
    /\ hotkeyAwaiting = <<>>
    /\ LET provider == localStorage.stt_provider
           configs == localStorage.provider_configs
           key == configs[provider].apiKey
       IN  /\ selectedProvider' = provider
           /\ IF key = ""
              THEN /\ providerConfigs' = configs
                   /\ probes' = {}
                   /\ UNCHANGED localStorage
              ELSE /\ providerConfigs' =
                        [configs EXCEPT ![provider].apiKeyStatus =
                            IF tooShort(key) THEN "idle" ELSE "validating"]
                   /\ localStorage' =
                        [localStorage EXCEPT !.provider_configs = providerConfigs']
                   /\ probes' = IF tooShort(key)
                                THEN {}
                                ELSE {ValidateProbe(provider, key, key)}
    /\ historyEnabled' = (IF localStorage.history_enabled = None
                          THEN TRUE
                          ELSE localStorage.history_enabled = "true")
    /\ historyLimit' = (IF localStorage.history_limit = None
                        THEN 25
                        ELSE parseInt(localStorage.history_limit))
    /\ history' = (IF localStorage.transcript_history = NoItem
                   THEN <<>>
                   ELSE JSONparse(localStorage.transcript_history[1]))
    /\ validationTimeoutRef' = NoTimer
    /\ sttExpanded' = TRUE
    /\ chunksRef' = <<>>
    /\ copied' = FALSE
    /\ UNCHANGED clipboard
    /\ UNCHANGED <<isRecording, isTranscribing, transcribedText,
                   mediaRecorderRef, cursorPositionRef, lastHotkeyTimeRef,
                   sessions, nextSession, hotkeyAwaiting, now, edits,
                   sessionLimit>>
    /\ Render

\* the keys typed into the key input: one that is too short to be probed
\* and one that is probed
TypedKeys == {ShortKey, Key1}

\* the providers the user switches between: one with a live catalog and
\* one with a fixed list
KeyProviders == {"gemini", "openai"}

\* the settings of a fresh installation in one run of the app: the key
\* input with its debounced validation, the provider and model buttons,
\* the section header, and the answers of the probes and catalog requests
InitKeys == Installed(MaxSessions, FreshConfigs)

NextKeys ==
    \/ \E k \in TypedKeys : typeApiKey(k)
    \/ \E p \in KeyProviders : selectProvider(p)
    \/ \E i \in DOMAIN currentConfig.availableModels :
        selectModel(selectedProvider, currentConfig.availableModels[i])
    \/ sttSectionButton
    \/ validationTimerFired
    \/ \E probe \in probes, response \in ProbeResponses :
        validateProviderApiKeyDone(probe, response)
    \/ \E probe \in probes, response \in ProbeResponses :
        fetchModelsForProviderDone(probe, response)

SpecKeys == InitKeys /\ [][NextKeys]_vars

\* key validation across restarts: the key input, the provider buttons,
\* the timer, the answers of the probes and catalog requests, and reloads
InitRestart == Installed(MaxSessions, FreshConfigs)

NextRestart ==
    \/ \E k \in TypedKeys : typeApiKey(k)
    \/ \E p \in KeyProviders : selectProvider(p)
    \/ validationTimerFired
    \/ \E probe \in probes, response \in ProbeResponses :
        validateProviderApiKeyDone(probe, response)
    \/ \E probe \in probes, response \in ProbeResponses :
        fetchModelsForProviderDone(probe, response)
    \/ reload

SpecRestart == InitRestart /\ [][NextRestart]_vars

\* the writes to the provider configurations while a transcription
\* request is under way: the key input, the provider and model buttons, the
\* timer, the answers of the probes and catalog requests, and the answer to
\* the transcription request, which may be an authentication error; the
\* keys typed are one that is too short and one that replaces a saved key,
\* so that the catalog is requested with the key saved before
ConfigKeys == {ShortKey, Key2}

InitConfig ==
    \E via \in {"ui", "hotkey"} :
        AwaitingAnswer(via, SavedConfigs, "gemini", <<>>, 0)

NextConfig ==
    \/ \E k \in ConfigKeys : typeApiKey(k)
    \/ \E p \in KeyProviders : selectProvider(p)
    \/ \E i \in DOMAIN currentConfig.availableModels :
        selectModel(selectedProvider, currentConfig.availableModels[i])
    \/ validationTimerFired
    \/ \E probe \in probes, response \in ProbeResponses :
        validateProviderApiKeyDone(probe, response)
    \/ \E probe \in probes, response \in ProbeResponses :
        fetchModelsForProviderDone(probe, response)
    \/ \E s \in Sessions, o \in Answers : providerAnswered(s, o)

SpecConfig == InitConfig /\ [][NextConfig]_vars

\* recordings by the button while the user changes the settings and the
\* buffer: an installation with saved configurations, the provider and
\* model buttons, the textarea, and the answers to the request
InitButton == Installed(MaxSessions, SavedConfigs)

NextButton ==
    \/ \E p \in Providers : selectProvider(p)
    \/ \E i \in DOMAIN currentConfig.availableModels :
        selectModel(selectedProvider, currentConfig.availableModels[i])
    \/ \E t \in UserTexts : textareaChange(t)
    \/ startRecording
    \/ stopRecording
    \/ \E s \in Sessions : getUserMediaResolved(s)
    \/ \E s \in Sessions : onstop(s)
    \/ \E s \in Sessions : requestSent(s)
    \/ \E s \in Sessions, o \in BufferAnswers : providerAnswered(s, o)

SpecButton == InitButton /\ [][NextButton]_vars

\* a transcript long enough for the history
LongTranscript == [kind |-> "text", body |-> World]

\* the messages the orchestrator writes and what becomes of them: an
\* installation without keys or with saved keys, recordings by the button
\* and by the hotkey, a microphone that may be denied, every outcome of
\* the provider call, and the clear and copy buttons; the user does not
\* type into the textarea
InitMessages ==
    \E configs \in {FreshConfigs, SavedConfigs} :
        Installed(MaxSessions, configs)

NextMessages ==
    \/ startRecording
    \/ stopRecording
    \/ hotkeyPressed
    \/ hotkeyToggle
    \/ \E s \in Sessions : getUserMediaResolved(s)
    \/ \E s \in Sessions : getUserMediaRejected(s)
    \/ \E s \in Sessions : onstop(s)
    \/ \E s \in Sessions : requestSent(s)
    \/ \E s \in Sessions, o \in Outcomes \cup {LongTranscript} :
        providerAnswered(s, o)
    \/ clearButton
    \/ copyToClipboard
    \/ copiedTimerFired

SpecMessages == InitMessages /\ [][NextMessages]_vars

\* the history across restarts: what NextHistory does, with a key saved by
\* an earlier run, two texts that are recorded and one that is not, and
\* reloads of the window; the answers to the validation a reload starts
\* are not followed
ReopenTexts == {Hello, World, <<"B","i","t","t","e">>}

InitReopen ==
    \E store \in SavedStores : InstalledWith(MaxSessions, SavedConfigs, store)

NextReopen ==
    \/ \E text \in ReopenTexts : textareaChange(text)
    \/ clearButton
    \/ \E i \in DeleteChoices(history) : deleteHistoryItem(history[i].id)
    \/ clearHistory
    \/ toggleHistoryEnabled(~historyEnabled)
    \/ \E limit \in HistoryLimits : updateHistoryLimit(limit)
    \/ msPasses
    \/ reload

SpecReopen == InitReopen /\ [][NextReopen]_vars

----------------------------------------------------------------------------
(* Properties *)

\* the capture sessions whose microphone stream is open
OpenStreams == {s \in Sessions : sessions[s].stream = "open"}

\* the recordings whose transcription has started and not ended
InFlight == {s \in Sessions : sessions[s].req \in {"encoding", "sent"}}

\* the recordings whose onstop handler has run
Finalized == {"encoding", "sent", "done", "rejected"}

\* C1: in every reachable state at most one capture session (an open
\* microphone stream with its recorder) exists, and every open stream is
\* the one mediaRecorderRef refers to, so that a stop signal can end it.
C1_OneCaptureSession ==
    /\ Cardinality(OpenStreams) <= 1
    /\ \A s \in OpenStreams : mediaRecorderRef = s

\* C2: in every reachable state isRecording and isTranscribing are not
\* both true, and at most one transcription request is in flight.
C2_NoConcurrentStates ==
    /\ ~(isRecording /\ isTranscribing)
    /\ Cardinality(InFlight) <= 1

\* C3: Transcribing always leads to Idle: whenever isTranscribing is true,
\* it is false again later, whatever the provider call ends with, on the
\* UI path and on the hotkey path, given that the provider call ends.
C3_TranscribingLeadsToIdle == isTranscribing ~> ~isTranscribing

\* C3, the case: a request that failed with a network error has ended and
\* the coordinator is not transcribing
C3_Witness ==
    /\ ~isTranscribing
    /\ transcribedText = FehlerPrefix \o ErrFailedToFetch
    /\ \E s \in Sessions : sessions[s].req = "done"

\* C4: Idle -> Recording is taken only with a non-empty API key for the
\* active provider: no step calls getUserMedia while the key is empty, and
\* isRecording becomes true only when such a call resolves and its
\* recorder is created.
C4_StartOnlyWithKey ==
    [][/\ (nextSession' # nextSession => apiKey # "")
       /\ (~isRecording /\ isRecording' =>
            \E s \in Sessions :
                /\ sessions[s].st = "acquiring"
                /\ sessions'[s].st = "recording")]_vars

\* C4, the case: the UI start was rejected for the empty key, a hotkey
\* signal waits to be handled with the key still empty, and getUserMedia
\* was never called
C4_Witness ==
    /\ apiKey = ""
    /\ transcribedText = MsgNoApiKey
    /\ hotkeyAwaiting # <<>>
    /\ ~isRecording /\ ~isTranscribing
    /\ nextSession = 1

\* C5: a start signal that is rejected because the active provider's key
\* is empty writes the placeholder message to the text buffer, from the
\* UI button and from the hotkey alike; here for the hotkey callback that
\* resumes in Idle with an empty key.
C5_RejectedStartWritesPlaceholder ==
    [][(/\ hotkeyAwaiting # <<>>
        /\ hotkeyAwaiting' = Tail(hotkeyAwaiting)
        /\ ~isRecording /\ ~isTranscribing
        /\ apiKey = "")
       => transcribedText' = MsgNoApiKey]_vars

\* C6 as stated, for Transcribing: a hotkey signal received while the
\* coordinator is in Transcribing never starts a capture, also not later.
C6_BusySignalNeverStarts ==
    [][(/\ hotkeyAwaiting # <<>>
        /\ hotkeyAwaiting' = Tail(hotkeyAwaiting)
        /\ Head(hotkeyAwaiting))
       => nextSession' = nextSession]_vars

\* C6: a start signal handled while the coordinator is in Recording or
\* Transcribing is ignored: while isRecording or isTranscribing is true no
\* step calls getUserMedia, and no step makes a recorder take up capturing.
C6_BusyIgnoresStart ==
    [][(isRecording \/ isTranscribing) =>
        /\ nextSession' = nextSession
        /\ \A s \in Sessions :
            sessions'[s].st = "acquiring" => sessions[s].st = "acquiring"]_vars

\* C6, the case: a hotkey signal is about to be handled while a
\* transcription runs, with a key configured
C6_Witness ==
    /\ isTranscribing
    /\ ~isRecording
    /\ hotkeyAwaiting # <<>>
    /\ apiKey # ""

\* C7: while less than COOLDOWN_MS have passed since the last accepted
\* hotkey signal, no hotkey signal is accepted: no callback gets past the
\* cooldown check and the last-accepted timestamp stays, so two accepted
\* signals are at least COOLDOWN_MS apart.
C7_Debounce ==
    [][now - lastHotkeyTimeRef < COOLDOWN_MS =>
        /\ Len(hotkeyAwaiting') <= Len(hotkeyAwaiting)
        /\ lastHotkeyTimeRef' = lastHotkeyTimeRef
        /\ now' >= now]_vars

\* C7, the case: a hotkey signal was accepted and handled, and the
\* cooldown is still running
C7_Witness ==
    /\ 0 < now - lastHotkeyTimeRef
    /\ now - lastHotkeyTimeRef < COOLDOWN_MS
    /\ hotkeyAwaiting = <<>>
    /\ nextSession > 1

\* C8: the microphone is released before transcription: once the onstop
\* handler of a recording has run, its artifact is final and its stream
\* is released, before the request is sent and whatever its outcome.
C8_ReleasedBeforeTranscription ==
    \A s \in Sessions :
        sessions[s].req \in Finalized =>
            /\ sessions[s].st = "finalized"
            /\ sessions[s].stream = "released"

\* C8, the case: a request was answered and the stream is released
C8_Witness ==
    \E s \in Sessions :
        sessions[s].req = "done" /\ sessions[s].stream = "released"

\* what the step of the suspended hotkey callback looks like
HotkeyHandled ==
    hotkeyAwaiting # <<>> /\ hotkeyAwaiting' = Tail(hotkeyAwaiting)

\* C9: the hotkey callback observes live state: handled in Idle, it calls
\* getUserMedia exactly if the key of the provider that is active now is
\* not empty, and when the recording it started is finalized, the request
\* goes to the provider that is active then, with its key and its selected
\* model as they are then.
C9_HotkeyObservesLiveState ==
    [][/\ (HotkeyHandled /\ ~isRecording /\ ~isTranscribing =>
            (nextSession' = nextSession + 1 <=> apiKey # ""))
       /\ \A s \in Sessions :
            (/\ sessions[s].via = "hotkey"
             /\ sessions[s].st = "stopping"
             /\ sessions'[s].st = "finalized") =>
                IF apiKey = ""
                THEN sessions'[s].req = "rejected"
                ELSE /\ sessions'[s].req = "encoding"
                     /\ sessions'[s].request =
                            [provider |-> selectedProvider,
                             apiKey |-> apiKey,
                             model |-> currentConfig.selectedModel]]_vars

\* C9, the case: after the user made another provider the active one and
\* changed its key, the request of a hotkey recording is on its way to
\* that provider with the new key
C9_Witness ==
    \E s \in Sessions :
        /\ sessions[s].via = "hotkey"
        /\ sessions[s].req = "sent"
        /\ sessions[s].request.provider = "openai"
        /\ sessions[s].request.apiKey = Key1

\* C10 as stated: every recording that is finalized starts a
\* transcription.
C10_EveryRecordingTranscribed ==
    [][\A s \in Sessions :
        (sessions[s].st # "finalized" /\ sessions'[s].st = "finalized") =>
            sessions'[s].req = "encoding"]_vars

\* C10: UI and hotkey share one coordinator state: a stop signal from
\* either entry point stops the current recorder, whichever entry point
\* started it; each recording is finalized at most once, after it was
\* stopped, and starts one transcription then, except that a recording
\* started by the hotkey starts none if the active provider's key is empty
\* when its onstop handler runs; no transcription is started later.
C10_SharedCoordinatorState ==
    [][/\ (isRecording /\ ~isRecording' =>
            /\ mediaRecorderRef # 0
            /\ sessions[mediaRecorderRef].st = "recording" =>
                    sessions'[mediaRecorderRef].st = "stopping")
       /\ (HotkeyHandled /\ isRecording => ~isRecording')
       /\ \A s \in Sessions :
            /\ (sessions[s].st # "finalized" /\ sessions'[s].st = "finalized") =>
                    /\ sessions[s].st = "stopping"
                    /\ sessions[s].req = "none"
                    /\ \/ sessions'[s].req = "encoding"
                       \/ /\ sessions'[s].req = "rejected"
                          /\ sessions[s].via = "hotkey"
                          /\ apiKey = ""
            /\ sessions[s].st = "finalized" =>
                    /\ sessions'[s].st = "finalized"
                    /\ sessions'[s].req = "encoding" =>
                            sessions[s].req = "encoding"]_vars

\* C10, the case: a recording started from the UI button was stopped by
\* the hotkey, its artifact is final and its transcription has started
C10_Witness ==
    \E s \in Sessions :
        /\ sessions[s].via = "ui"
        /\ sessions[s].stoppedBy = "hotkey"
        /\ sessions[s].st = "finalized"
        /\ sessions[s].req = "encoding"

\* the recordings whose insertion offset has been captured (lines 510-515
\* at the click, lines 452-457 once the hotkey's stream is there) and has
\* not been used yet
OffsetCaptured(s) ==
    \/ /\ sessions[s].via = "ui"
       /\ sessions[s].st \in {"acquiring", "recording", "stopping"}
    \/ /\ sessions[s].via = "hotkey"
       /\ sessions[s].st \in {"recording", "stopping"}
    \/ sessions[s].req \in {"encoding", "sent"}

\* what the step in which the answer to recording s is handled looks like
Completed(s) == sessions[s].req = "sent" /\ sessions'[s].req = "done"

\* the buffer a completion reads: transcribeAudio the text of the render
\* its recording was started in, transcribeAudioFromHotkey the live text
BufferRead(s) ==
    IF sessions[s].via = "ui" THEN sessions[s].closure.text ELSE transcribedText

Min(a, b) == IF a < b THEN a ELSE b

C12_MergedCursorWithinBuffer ==
    [][\A s \in Sessions :
        (/\ Completed(s)
         /\ nextSession = 2
         /\ cursorPositionRef' # cursorPositionRef) =>
            /\ 0 <= cursorPositionRef'
            /\ cursorPositionRef' <= Len(transcribedText')]_vars

\* the texts handed to the merge: the transcripts as they come and trimmed
NewTexts == MergeTranscripts \cup {Trim(t) : t \in MergeTranscripts}

\* the state holds a valid pair of buffer and cursor
ValidCursor ==
    0 <= cursorPositionRef /\ cursorPositionRef <= Len(transcribedText)

\* C13: for every buffer, every cursor within it and every newText,
\* insertTextAtCursor returns the buffer before the cursor, a separator
\* (nothing or one space), newText and the buffer behind the cursor, and
\* as the new cursor the end of the inserted span; ("Hello", 5, "world")
\* gives ("Hello world", 11) and ("", 0, "Test") gives ("Test", 4).
C13_InsertResult ==
    ValidCursor =>
        LET buffer == transcribedText
            cursor == cursorPositionRef
        IN  /\ \A newText \in NewTexts :
                LET r == insertTextAtCursor(buffer, cursor, newText)
                IN  \E separator \in {<<>>, <<" ">>} :
                        /\ r.text = SubSeq(buffer, 1, cursor) \o separator
                                \o newText
                                \o SubSeq(buffer, cursor + 1, Len(buffer))
                        /\ r.cursor = cursor + Len(separator) + Len(newText)
            /\ (buffer = <<"H", "e", "l", "l", "o">> /\ cursor = 5) =>
                    insertTextAtCursor(buffer, cursor, <<"w", "o", "r", "l", "d">>)
                        = [text |-> <<"H", "e", "l", "l", "o", " ",
                                      "w", "o", "r", "l", "d">>,
                           cursor |-> 11]
            /\ (buffer = <<>> /\ cursor = 0) =>
                    insertTextAtCursor(buffer, cursor, <<"T", "e", "s", "t">>)
                        = [text |-> <<"T", "e", "s", "t">>, cursor |-> 4]

\* C13, the case: "world" was merged into "Hello" at offset 5
C13_Witness ==
    /\ transcribedText =
        <<"H", "e", "l", "l", "o", " ", "w", "o", "r", "l", "d">>
    /\ cursorPositionRef = 11
    /\ \E s \in Sessions : sessions[s].req = "done"

\* C14: the separator of a merge, on both paths: nothing when the cursor
\* is at the start of the buffer or the character before the cursor is
\* whitespace or a newline, so that the inserted text follows that
\* character directly; exactly one space when the character before the
\* cursor is not whitespace.
C14_SeparatorRule ==
    ValidCursor =>
        LET buffer == transcribedText
            cursor == cursorPositionRef
        IN  \A newText \in NewTexts :
                LET ui == insertTextAtCursor(buffer, cursor, newText)
                    hk == mergeFromHotkey(buffer, cursor, newText)
                    trimmed == Trim(newText)
                IN  IF cursor = 0 \/ buffer[cursor] \in Whitespace
                    THEN /\ Len(ui.text) = Len(buffer) + Len(newText)
                         /\ SubSeq(ui.text, cursor + 1, cursor + Len(newText))
                                = newText
                         /\ Len(hk.text) = Len(buffer) + Len(trimmed)
                         /\ SubSeq(hk.text, cursor + 1, cursor + Len(trimmed))
                                = trimmed
                    ELSE /\ Len(ui.text) = Len(buffer) + 1 + Len(newText)
                         /\ ui.text[cursor + 1] = " "
                         /\ SubSeq(ui.text, cursor + 2, cursor + 1 + Len(newText))
                                = newText
                         /\ Len(hk.text) = Len(buffer) + 1 + Len(trimmed)
                         /\ hk.text[cursor + 1] = " "
                         /\ SubSeq(hk.text, cursor + 2, cursor + 1 + Len(trimmed))
                                = trimmed

\* C14, the case: "Test" was merged behind a newline, without a space
C14_Witness ==
    /\ transcribedText = <<"a", "\n", "T", "e", "s", "t">>
    /\ cursorPositionRef = 6
    /\ \E s \in Sessions : sessions[s].req = "done"

\* the length of the separator that the rule of the merge asks for
SeparatorLength(buffer, cursor) ==
    IF cursor = 0 \/ buffer[cursor] \in Whitespace THEN 0 ELSE 1

\* C15: for every buffer, every cursor within it and every newText, the
\* merged buffer is as long as the buffer, the separator and newText
\* together, so never shorter than the buffer, and the new cursor lies
\* within the merged buffer.
C15_LengthAndCursorBounds ==
    ValidCursor =>
        LET buffer == transcribedText
            cursor == cursorPositionRef
        IN  \A newText \in NewTexts :
                LET r == insertTextAtCursor(buffer, cursor, newText)
                IN  /\ Len(r.text) = Len(buffer)
                            + SeparatorLength(buffer, cursor) + Len(newText)
                    /\ Len(r.text) >= Len(buffer)
                    /\ 0 <= r.cursor
                    /\ r.cursor <= Len(r.text)

\* C15, the case: a transcript was merged into the middle of "a b"
C15_Witness ==
    /\ transcribedText = <<"a", " ", "h", "i", " ", "b">>
    /\ cursorPositionRef = 4
    /\ \E s \in Sessions : sessions[s].req = "done"

\* C16: the merge is the same function on both paths: whichever path
\* handles the answer, the buffer and the cursor it writes are those of
\* insertTextAtCursor applied to the buffer it reads, the remembered
\* cursor and the trimmed transcript, and equally those of the hotkey
\* path's inline merge applied to the same buffer, cursor and transcript.
C16_SameMergeOnBothPaths ==
    [][\A s \in Sessions, o \in MergeAnswers :
        providerAnswered(s, o) =>
            LET ui == insertTextAtCursor(BufferRead(s), cursorPositionRef,
                                         Trim(o.body))
                hk == mergeFromHotkey(BufferRead(s), cursorPositionRef, o.body)
            IN  /\ ui = hk
                /\ transcribedText' = ui.text
                /\ cursorPositionRef' = ui.cursor]_vars

\* C16, the case: a transcript that came with surrounding whitespace was
\* merged behind "Hello"
C16_Witness ==
    /\ transcribedText = <<"H", "e", "l", "l", "o", " ", "h", "i">>
    /\ cursorPositionRef = 8
    /\ \E s \in Sessions : sessions[s].req = "done"

\* C17: when the provider returns the no-speech sentinel and the buffer is
\* empty when the answer is handled, the buffer becomes the fixed no-speech
\* message and does not contain the sentinel text, on both entry paths.
C17_NoSpeechMessage ==
    [][\A s \in Sessions :
        providerAnswered(s, NoSpeech) /\ transcribedText = <<>> =>
            /\ transcribedText' = MsgNoSpeech
            /\ ~Includes(transcribedText', NoSpeechSentinel)]_vars

\* the three outcomes of a transcription that the spec tells apart: the
\* no-speech sentinel, an absent result, a transport error
ThreeOutcomes == {NoSpeech, Absent, NetworkFailure}

\* the buffer shows the message of a failed transcription
ShowsFailure ==
    Slice(transcribedText, 0, Len(FehlerPrefix)) = FehlerPrefix

\* C18 as stated: the no-speech sentinel, an absent result and a transport
\* error lead to different observable results for every provider and
\* every prior buffer content: no step is the handling of two of them.
C18_OutcomesNeverCollapsed ==
    [][\A s \in Sessions : \A o1, o2 \in ThreeOutcomes :
        o1 # o2 => ~(providerAnswered(s, o1) /\ providerAnswered(s, o2))]_vars

\* C18: the provider call ends differently for the no-speech sentinel, an
\* absent result and a transport error, for every provider, and the three
\* lead to different buffers unless the buffer already shows the message
\* of a failed transcription, which the no-speech outcome leaves there.
C18_OutcomesDistinct ==
    [][/\ \A p \in Providers : \A o1, o2 \in ThreeOutcomes :
            o1 # o2 => transcribeWithProvider(p, o1) # transcribeWithProvider(p, o2)
       /\ \A s \in Sessions : \A o1, o2 \in ThreeOutcomes :
            (o1 # o2 /\ ~ShowsFailure) =>
                ~(providerAnswered(s, o1) /\ providerAnswered(s, o2))
       /\ \A s \in Sessions :
            /\ providerAnswered(s, NoSpeech) =>
                    transcribedText' \in {MsgNoSpeech, transcribedText}
            /\ providerAnswered(s, Absent) =>
                    transcribedText' =
                        FehlerPrefix \o MsgNoAnswer[sessions[s].request.provider]
            /\ providerAnswered(s, NetworkFailure) =>
                    transcribedText' = FehlerPrefix \o ErrFailedToFetch]_vars

\* C18, the case: OpenAI answered with a body without text and the buffer
\* says so
C18_Witness ==
    /\ transcribedText = FehlerPrefix \o MsgNoAnswer["openai"]
    /\ selectedProvider = "openai"
    /\ ~isTranscribing
    /\ \E s \in Sessions : sessions[s].req = "done"

\* C19: whenever the response to the transcription request has status
\* 401, the apiKeyStatus of the provider that was called becomes invalid
\* and the buffer shows the invalid-key message, whatever the body of the
\* response says.
C19_Status401MarksKeyInvalid ==
    [][\A s \in Sessions, response \in HttpResponses :
        (response.status = 401 /\ fetchResolved(s, response)) =>
            /\ providerConfigs'[sessions[s].request.provider].apiKeyStatus
                    = "invalid"
            /\ transcribedText' = MsgInvalidKey]_vars

\* C20: when microphone acquisition fails, on either entry point, the
\* failure is written to the buffer as a message for the user, and the
\* coordinator is in Idle afterwards: isRecording is false and the failed
\* acquisition has left no recorder and no open stream.
C20_MicFailureSurfaced ==
    [][\A s \in Sessions :
        (sessions[s].st = "acquiring" /\ sessions'[s].st = "failed") =>
            /\ transcribedText' = MsgMicDenied
            /\ ~isRecording'
            /\ mediaRecorderRef' # s
            /\ sessions'[s].stream # "open"]_vars

\* the conditions under which record(text) is to leave the history alone
RecordRejected(text) ==
    \/ ~historyEnabled
    \/ Len(text) < 5
    \/ \E prefix \in RejectedPrefixes : StartsWith(text, prefix)
    \/ (history # <<>> /\ history[1].text = text)

\* C21: record(text), the record call of the clear action, leaves the
\* history and the store as they are exactly when the history is disabled,
\* the text has fewer than 5 characters, the text starts with one of the
\* fixed prefixes, or the text is that of the newest item; otherwise the
\* history becomes the new item followed by the previous items, cut to the
\* first historyLimit items if historyLimit > 0, and that list is written
\* to the store.
C21_RecordContract ==
    [][clearButton =>
        LET text == transcribedText
            n == Len(history) + 1
            kept == IF historyLimit > 0 /\ historyLimit < n
                    THEN historyLimit
                    ELSE n
        IN  /\ (history' = history) <=> RecordRejected(text)
            /\ RecordRejected(text) =>
                    localStorage'.transcript_history
                        = localStorage.transcript_history
            /\ ~RecordRejected(text) =>
                    /\ Len(history') = kept
                    /\ history'[1].text = text
                    /\ history'[1].timestamp = now
                    /\ \A i \in 2..kept : history'[i] = history[i - 1]
                    /\ localStorage'.transcript_history = Stored(history')]_vars

\* a text was recorded into a full history of ten items: the oldest item
\* is gone
C21_Witness ==
    /\ historyLimit = 10
    /\ Len(history) = 10
    /\ history[1] = newItem(Hello, COOLDOWN_MS)
    /\ history[10].id = "2"
    /\ transcribedText = <<>>
    /\ localStorage.transcript_history = Stored(history)

\* the history after saveToHistory(text) at time at, lines 228-252, for the
\* history prev
recordAt(prev, text, at) ==
    IF earlyReturn(text) \/ sameAsNewest(prev, text)
    THEN prev
    ELSE newHistory(prev, newItem(text, at), historyLimit)

\* C22: recording the same text twice in a row gives the history that
\* recording it once gives, for every history reached and every text; a
\* clear action whose text is that of the newest item adds no item.
C22_RecordIdempotent ==
    /\ [](\A text \in HistoryTexts, later \in {now, now + 1} :
            recordAt(recordAt(history, text, now), text, later)
                = recordAt(history, text, now))
    /\ [][(clearButton /\ history # <<>> /\ history[1].text = transcribedText)
            => history' = history]_vars

\* "hello" was typed and cleared twice, a millisecond apart: one item
C22_Witness ==
    /\ history = <<newItem(Hello, COOLDOWN_MS)>>
    /\ now = COOLDOWN_MS + 1
    /\ edits = 2
    /\ transcribedText = <<>>

\* C23: while historyLimit > 0 the history has at most historyLimit items,
\* in every state; setLimit(n) with n > 0 leaves at most n items and
\* setLimit(0) leaves every item.
C23_Capacity ==
    /\ [](historyLimit > 0 => Len(history) <= historyLimit)
    /\ [][\A n \in HistoryLimits :
            updateHistoryLimit(n) =>
                /\ historyLimit' = n
                /\ n > 0 => Len(history') <= n
                /\ n = 0 => history' = history]_vars

\* eleven unlimited items were cut to ten
C23_Witness ==
    /\ historyLimit = 10
    /\ Len(history) = 10
    /\ history[1].id = "11"
    /\ history[10].id = "2"

\* C24: no two items of the history have the same id.
C24_UniqueIds ==
    \A i, j \in DOMAIN history :
        i # j => history[i].id # history[j].id

\* the timestamps do not increase from the newest item to the oldest
NewestFirst(items) ==
    \A i \in 1..(Len(items) - 1) :
        items[i].timestamp >= items[i + 1].timestamp

\* C25: the history is ordered newest first in every state, and a
\* truncation (by a record or by setLimit) drops only items that are at
\* least as old as every item kept.
C25_NewestFirst ==
    /\ [](NewestFirst(history))
    /\ [][(clearButton \/ \E n \in HistoryLimits : updateHistoryLimit(n)) =>
            \A i \in DOMAIN history :
                (\A j \in DOMAIN history' : history'[j] # history[i]) =>
                    \A j \in DOMAIN history' :
                        history[i].timestamp <= history'[j].timestamp]_vars

\* 25 items were cut to ten and a text was recorded a millisecond later
C25_Witness ==
    /\ Len(history) = 10
    /\ history[1].timestamp = COOLDOWN_MS + 1
    /\ history[2].id = "25"
    /\ history[10].id = "17"

SelectedModelListed(config) ==
    \E i \in DOMAIN config.availableModels :
        config.availableModels[i] = config.selectedModel

\* C27: when a catalog request of a provider is answered, with the live
\* catalog or with the fallback to the defaults, the provider's selected
\* model is among its available models.
C27_SelectedModelAvailable ==
    [][\A probe \in probes, response \in ProbeResponses :
        fetchModelsForProviderDone(probe, response) =>
            SelectedModelListed(providerConfigs'[probe.provider])]_vars

\* a key probe of provider p is under way
ProbeUnderWay(p) ==
    \E probe \in probes : probe.kind = "validate" /\ probe.provider = p

\* no provider shows validating without a probe of its key under way
Resolved ==
    \A p \in Providers :
        providerConfigs[p].apiKeyStatus = "validating" => ProbeUnderWay(p)

\* a validation that the timer starts for a key of at least 10 characters
\* sets the status to validating and sends the probe; the answer of a
\* probe sets the status to valid if it is a response with response.ok
\* and to invalid otherwise
ValidationSteps ==
    /\ (validationTimerFired /\ ~tooShort(validationTimeoutRef.key)) =>
            /\ providerConfigs'[validationTimeoutRef.provider].apiKeyStatus
                    = "validating"
            /\ \E probe \in probes' :
                    /\ probe.kind = "validate"
                    /\ probe.provider = validationTimeoutRef.provider
                    /\ probe.key = validationTimeoutRef.key
    /\ \A probe \in probes, response \in ProbeResponses :
            validateProviderApiKeyDone(probe, response) =>
                providerConfigs'[probe.provider].apiKeyStatus
                    = IF response.kind = "ok" THEN "valid" ELSE "invalid"

C29_ValidationPerProvider ==
    [][\A p \in Providers :
        (validationTimeoutRef.provider = p
            /\ validationTimeoutRef' # validationTimeoutRef) =>
                \/ validationTimeoutRef'.provider = p
                \/ validationTimerFired]_vars

\* C30: the audio of a recording is sent to the provider at most once: a
\* request is sent only for a recording that was stopped and whose audio
\* has not been sent before, a request that was sent ends with its answer
\* or its failure, and after that, or after the rejection for a missing
\* key, nothing more happens to the recording.
C30_OneRequestPerArtifact ==
    [][\A s \in Sessions :
        /\ (sessions[s].req = "none" /\ sessions'[s].req # "none") =>
                sessions[s].st = "stopping"
        /\ (sessions[s].req # "sent" /\ sessions'[s].req = "sent") =>
                (sessions[s].req = "encoding" /\ sessions[s].st = "finalized")
        /\ sessions[s].req = "sent" => sessions'[s].req \in {"sent", "done"}
        /\ sessions[s].req \in {"done", "rejected"} =>
                sessions'[s].req = sessions[s].req]_vars

\* the request of the first recording failed, and the request of a second
\* recording is under way
C30_Witness ==
    /\ sessions[1].req = "done"
    /\ sessions[2].req = "sent"
    /\ transcribedText = FehlerPrefix \o ErrFailedToFetch

\* a step changes at most the fields named in fields of the entry of
\* provider p, and no other entry
OnlyFields(p, fields) ==
    /\ \A q \in Providers \ {p} : providerConfigs'[q] = providerConfigs[q]
    /\ \A f \in DOMAIN providerConfigs[p] \ fields :
            providerConfigs'[p][f] = providerConfigs[p][f]

\* the answer is an error that the catch blocks take for an authentication
\* error
AuthError(provider, outcome) ==
    /\ ~transcribeWithProvider(provider, outcome).ok
    /\ IsAuthError(transcribeWithProvider(provider, outcome).text)

\* C31: every write to the provider configurations changes only the
\* fields it names, in the entry of the provider it names, and leaves the
\* value it wrote there whatever was written before: the key input writes
\* the key of the active provider; a model button the selected model; the
\* start of a validation the status; the answer of a key probe the status
\* valid or invalid and, with the model fetch it starts, the model list and
\* its loading flag; the answer of a catalog request the model list, the
\* loading flag and the status; an authentication error of a transcription
\* the status invalid of the provider the request went to.  Nothing else
\* changes the configurations, and what is stored under provider_configs
\* is the map in memory.
C31_KeyedLastWriteWins ==
    /\ [](localStorage.provider_configs = providerConfigs)
    /\ [][/\ \A k \in TypedKeys :
                typeApiKey(k) =>
                    /\ OnlyFields(selectedProvider, {"apiKey"})
                    /\ providerConfigs'[selectedProvider].apiKey = k
          /\ \A i \in DOMAIN currentConfig.availableModels :
                selectModel(selectedProvider, currentConfig.availableModels[i]) =>
                    /\ OnlyFields(selectedProvider, {"selectedModel"})
                    /\ providerConfigs'[selectedProvider].selectedModel
                            = currentConfig.availableModels[i]
          /\ \A p \in Providers : selectProvider(p) => UNCHANGED providerConfigs
          /\ validationTimerFired =>
                /\ OnlyFields(validationTimeoutRef.provider, {"apiKeyStatus"})
                /\ providerConfigs'[validationTimeoutRef.provider].apiKeyStatus
                        = IF tooShort(validationTimeoutRef.key)
                          THEN "idle"
                          ELSE "validating"
          /\ \A probe \in probes, response \in ProbeResponses :
                /\ validateProviderApiKeyDone(probe, response) =>
                    /\ OnlyFields(probe.provider,
                            IF response.kind = "ok"
                            THEN {"apiKeyStatus", "availableModels",
                                  "isLoadingModels"}
                            ELSE {"apiKeyStatus"})
                    /\ providerConfigs'[probe.provider].apiKeyStatus
                            = IF response.kind = "ok" THEN "valid" ELSE "invalid"
                /\ fetchModelsForProviderDone(probe, response) =>
                    /\ OnlyFields(probe.provider,
                            IF response.kind = "failed"
                            THEN {"isLoadingModels"}
                            ELSE {"apiKeyStatus", "availableModels",
                                  "isLoadingModels"})
                    /\ ~providerConfigs'[probe.provider].isLoadingModels
                    /\ response.kind # "failed" =>
                            providerConfigs'[probe.provider].apiKeyStatus = "valid"
          /\ \A s \in Sessions, o \in Answers :
                providerAnswered(s, o) =>
                    IF AuthError(sessions[s].request.provider, o)
                    THEN /\ OnlyFields(sessions[s].request.provider,
                                       {"apiKeyStatus"})
                         /\ providerConfigs'[sessions[s].request.provider]
                                .apiKeyStatus = "invalid"
                    ELSE UNCHANGED providerConfigs]_vars

\* the transcription failed with an authentication error while the probe
\* of a newly typed key was under way, and the answer of the probe, which
\* came later, made the status valid
C31_Witness ==
    /\ sessions[1].req = "done"
    /\ transcribedText = MsgInvalidKey
    /\ providerConfigs["gemini"].apiKeyStatus = "valid"
    /\ providerConfigs["gemini"].apiKey = Key2
    /\ providerConfigs["openai"] = SavedConfigs["openai"]
    /\ probes = {}
    /\ validationTimeoutRef = NoTimer

\* C32: when the answer to a transcription request is an authentication
\* error, the status of the provider the request was sent to becomes
\* invalid and the status of every other provider stays as it is, whichever
\* provider is active by then.
C32_DowngradesRequestProvider ==
    [][\A s \in Sessions, o \in Answers :
        (providerAnswered(s, o) /\ AuthError(sessions[s].request.provider, o)) =>
            \A p \in Providers :
                providerConfigs'[p].apiKeyStatus
                    = IF p = sessions[s].request.provider
                      THEN "invalid"
                      ELSE providerConfigs[p].apiKeyStatus]_vars

\* the request to Gemini failed with an authentication error after the
\* user had made OpenAI the active provider
C32_Witness ==
    /\ sessions[1].req = "done"
    /\ transcribedText = MsgInvalidKey
    /\ selectedProvider = "openai"
    /\ providerConfigs["gemini"].apiKeyStatus = "invalid"
    /\ providerConfigs["openai"].apiKeyStatus = "valid"

\* C33: a recording started by the button is transcribed by the provider
\* that is active when it is started, with the key and the selected model
\* stored for that provider at that moment.
C33_RequestFromCurrentState ==
    [][/\ (startRecording /\ nextSession' > nextSession
                /\ nextSession <= sessionLimit) =>
            /\ sessions'[nextSession].closure.provider = selectedProvider
            /\ sessions'[nextSession].closure.apiKey = currentConfig.apiKey
            /\ sessions'[nextSession].closure.selectedModel
                    = currentConfig.selectedModel
       /\ \A s \in Sessions :
            (onstop(s) /\ sessions[s].via = "ui"
                /\ sessions'[s].req = "encoding") =>
                    sessions'[s].request =
                        [provider |-> sessions[s].closure.provider,
                         apiKey |-> sessions[s].closure.apiKey,
                         model |-> sessions[s].closure.selectedModel]]_vars

\* C34: the chunk buffer is emptied when a recording starts, and the blob
\* made when a recording is stopped holds the chunks of that recording's
\* recorder and no others.
C34_ArtifactOfOwnChunks ==
    [][\A s \in Sessions :
        /\ getUserMediaResolved(s) => chunksRef' = <<>>
        /\ onstop(s) =>
            \A i \in DOMAIN sessions'[s].blob : sessions'[s].blob[i] = s]_vars

\* C35: when a transcript arrives, on either path, the buffer becomes the
\* buffer as it is at that moment, edits made since the recording started
\* included, with the transcript inserted at the remembered offset.
C35_EditsInFlightPreserved ==
    [][\A s \in Sessions :
        providerAnswered(s, Transcript) =>
            transcribedText' =
                insertTextAtCursor(transcribedText, cursorPositionRef,
                                   Trim(Transcript.body)).text]_vars

\* C36: the answer of a key probe or of a catalog request writes the
\* status valid or invalid only for the key it was made with: when it
\* writes the status, the key stored for the provider is the key of the
\* request, and valid is written only for a response with response.ok.
C36_StatusOfStoredKey ==
    [][\A probe \in probes, response \in ProbeResponses :
        /\ validateProviderApiKeyDone(probe, response) =>
                probe.key = providerConfigs'[probe.provider].apiKey
        /\ (fetchModelsForProviderDone(probe, response)
                /\ response.kind # "failed") =>
                    /\ probe.key = providerConfigs'[probe.provider].apiKey
                    /\ providerConfigs'[probe.provider].apiKeyStatus = "valid"
                            => response.kind = "ok"]_vars

\* C37: when the probe of a key succeeds, the models of the provider are
\* fetched with that key: for Gemini a catalog request with the key of the
\* probe is sent, for the other providers the fixed list is installed.
C37_ModelsFetchedWithValidatedKey ==
    [][\A probe \in probes, response \in ProbeResponses :
        (validateProviderApiKeyDone(probe, response) /\ response.kind = "ok") =>
            IF probe.provider = "gemini"
            THEN \E request \in probes' :
                    /\ request.kind = "models"
                    /\ request.provider = probe.provider
                    /\ request.key = probe.key
            ELSE providerConfigs'[probe.provider].availableModels
                    = StaticModels[probe.provider]]_vars

\* C38: when the transcript contains the no-speech sentinel and the buffer
\* is not empty as the answer is handled, the buffer and the remembered
\* offset stay as they are, on both paths.
C38_NoSpeechLeavesBuffer ==
    [][\A s \in Sessions :
        (providerAnswered(s, NoSpeech) /\ transcribedText # <<>>) =>
            /\ transcribedText' = transcribedText
            /\ cursorPositionRef' = cursorPositionRef]_vars

\* the status messages of the orchestrator, lines 506, 539, 684, 695,
\* 704, 707, 733, 749, 786 and 789, with the error messages of the provider
\* call that are not taken for authentication errors
StatusMessages ==
    {MsgNoApiKey, MsgMicDenied, MsgNoSpeech, MsgInvalidKey}
        \cup {FehlerPrefix \o ErrFailedToFetch}
        \cup {FehlerPrefix \o MsgNoAnswer[p] : p \in Providers}

\* a step of the orchestrator that is not the merge of a transcript
WritesNoTranscript ==
    \/ startRecording
    \/ \E s \in Sessions : getUserMediaRejected(s)
    \/ \E s \in Sessions : onstop(s)
    \/ \E s \in Sessions, o \in Outcomes \ {Transcript} : providerAnswered(s, o)

\* C39: whatever the orchestrator writes to the buffer other than a merged
\* transcript is one of its status messages, and each of them starts with a
\* rejected prefix; while the buffer holds such a message the clear button
\* records nothing and the copy button copies nothing, so no item of the
\* history and no text written to the clipboard is a status message.
C39_MessagesNeverKept ==
    /\ [][(WritesNoTranscript /\ transcribedText' # transcribedText) =>
            transcribedText' \in StatusMessages]_vars
    /\ [](\A text \in StatusMessages :
            \E prefix \in RejectedPrefixes : StartsWith(text, prefix))
    /\ [][(clearButton /\ transcribedText \in StatusMessages) =>
            UNCHANGED <<history, localStorage>>]_vars
    /\ [][copyToClipboard => transcribedText \notin StatusMessages]_vars
    /\ [](\A i \in DOMAIN history : history[i].text \notin StatusMessages)
    /\ [](clipboard \notin StatusMessages)

\* a recording failed, its message was cleared away by the clear button,
\* and neither the history nor the clipboard has taken it
C39_Witness ==
    /\ \E s \in Sessions : sessions[s].st = "failed"
    /\ transcribedText = <<>>
    /\ history = <<>>
    /\ clipboard = <<>>

\* what the initialiser of history, lines 173-176, reads from localStorage
savedHistory ==
    IF localStorage.transcript_history = NoItem
    THEN <<>>
    ELSE JSONparse(localStorage.transcript_history[1])

\* C40: after any sequence of recording, deleting, clearing and setting
\* the limit, the list saved under transcript_history, an absent key read
\* as the empty list, is the history in memory, and a restart leaves the
\* history as the user last saw it.
C40_HistoryRoundTrip ==
    /\ [](savedHistory = history)
    /\ [][reload => history' = history]_vars

\* the window was loaded anew after a run that cut a saved history of
\* eleven items to ten, deleted an item and recorded a new text: the
\* history of nine saved items and the new one is in place
C40_Witness ==
    /\ probes # {}
    /\ localStorage.history_limit = "10"
    /\ Len(history) = 10
    /\ history[1].timestamp >= COOLDOWN_MS
    /\ history[10].id = "3"
    /\ savedHistory = history

====
